---- MODULE Spec2Model ----
(***************************************************************************)
(* A model of the Grove scripting runtime (modules/eden_script/grove):     *)
(* the scoped Environment, the tree-walking Interpreter and the C embedding*)
(* boundary (grove_eval and the grove_set_* / grove_register_fn calls).    *)
(*                                                                         *)
(* The interpreter is recursive in the source; its methods are operators   *)
(* that thread the interpreter record `it` exactly where the source        *)
(* threads `&mut self`.  Every operator returns a result record            *)
(*     [it, ok, cf, v, err]                                                *)
(* it : the interpreter after the call, ok : Ok(..) / Err(..),             *)
(* cf : the Option<ControlFlow> of a statement, v : the Value,             *)
(* err: the GroveError.                                                    *)
(***************************************************************************)
EXTENDS Integers, Sequences, FiniteSets, TLC

VARIABLES
    interp,           \* GroveVm.interp : Interpreter
    last_error,       \* GroveVm.last_error : Option<CString>
    last_error_line,  \* GroveVm.last_error_line : u32
    op,               \* the last C-ABI call and what it returned
    env,              \* an Environment driven directly through its own API
    eop               \* the last Environment call and what it returned

vars == <<interp, last_error, last_error_line, op, env, eop>>
vmvars == <<interp, last_error, last_error_line, op>>
envvars == <<env, eop>>

----------------------------------------------------------------------------
(* Bounds of the model *)

MaxLimit == 7      \* largest instruction limit under which grove_eval is run
MaxDepth == 3      \* scopes pushed on the directly driven Environment
MaxLeak == 2       \* environment depth up to which grove_eval is still run

----------------------------------------------------------------------------
(* types.rs : Value *)

VNil == [t |-> "Nil"]
VBool(b) == [t |-> "Bool", b |-> b]
VNumber(n) == [t |-> "Number", n |-> n]
VString(s) == [t |-> "String", s |-> s]
VVec3(x, y, z) == [t |-> "Vec3", x |-> x, y |-> y, z |-> z]
VArray(a) == [t |-> "Array", a |-> a]
VTable(m) == [t |-> "Table", m |-> m]
VObject(h) == [t |-> "Object", h |-> h]

is_truthy(v) ==
    CASE v.t = "Nil" -> FALSE
      [] v.t = "Bool" -> v.b
      [] OTHER -> TRUE

type_name(v) ==
    CASE v.t = "Nil" -> "nil"
      [] v.t = "Bool" -> "bool"
      [] v.t = "Number" -> "number"
      [] v.t = "String" -> "string"
      [] v.t = "Vec3" -> "vec3"
      [] v.t = "Array" -> "array"
      [] v.t = "Table" -> "table"
      [] OTHER -> "object"

\* impl PartialEq for Value: arrays and tables never compare equal
value_eq(a, b) ==
    CASE a.t = "Nil" /\ b.t = "Nil" -> TRUE
      [] a.t = "Bool" /\ b.t = "Bool" -> a.b = b.b
      [] a.t = "Number" /\ b.t = "Number" -> a.n = b.n
      [] a.t = "String" /\ b.t = "String" -> a.s = b.s
      [] a.t = "Vec3" /\ b.t = "Vec3" -> a.x = b.x /\ a.y = b.y /\ a.z = b.z
      [] a.t = "Object" /\ b.t = "Object" -> a.h = b.h
      [] OTHER -> FALSE

----------------------------------------------------------------------------
(* HashMap<String, _> : a function whose domain is the set of keys *)

EmptyMap == <<>>
contains_key(m, k) == k \in DOMAIN m
insert(m, k, v) == [n \in (DOMAIN m) \cup {k} |-> IF n = k THEN v ELSE m[n]]

\* Option<Value>
None == [some |-> FALSE, v |-> VNil]
Some(v) == [some |-> TRUE, v |-> v]

----------------------------------------------------------------------------
(* environment.rs : Environment { scopes: Vec<HashMap<String, Value>> }    *)
(* A scope stack is a sequence of maps, innermost last.                    *)

EnvNew == <<EmptyMap>>

push_scope(scopes) == Append(scopes, EmptyMap)

\* a faulty pop_scope, without the depth guard (C7 must reject it)
pop_scope_unguarded(scopes) ==
    IF Len(scopes) > 0 THEN SubSeq(scopes, 1, Len(scopes) - 1) ELSE scopes

\* pop_scope: the global scope is never popped
pop_scope(scopes) ==
    IF Len(scopes) > 1 THEN SubSeq(scopes, 1, Len(scopes) - 1) ELSE scopes

\* a faulty define, writing the outermost scope (C8 must reject it)
define_outermost(scopes, name, value) ==
    IF Len(scopes) > 0
    THEN [scopes EXCEPT ![1] = insert(scopes[1], name, value)]
    ELSE scopes

\* define: insert into the innermost scope
define(scopes, name, value) ==
    IF Len(scopes) > 0
    THEN [scopes EXCEPT ![Len(scopes)] = insert(scopes[Len(scopes)], name, value)]
    ELSE scopes

\* the scopes that contain `name`
holders(scopes, name) == {i \in 1..Len(scopes) : contains_key(scopes[i], name)}

Max(S) == CHOOSE i \in S : \A j \in S : j <= i

\* a faulty set, defining a name no scope contains (C9 must reject it)
set_or_define(scopes, name, value) ==
    LET h == holders(scopes, name) IN
    IF h = {} THEN [scopes |-> define(scopes, name, value), found |-> TRUE]
    ELSE [scopes |-> [scopes EXCEPT ![Max(h)] = insert(scopes[Max(h)], name, value)],
          found |-> TRUE]

\* set returns the new scope stack and the bool the source returns
set(scopes, name, value) ==
    LET h == holders(scopes, name) IN
    IF h = {} THEN [scopes |-> scopes, found |-> FALSE]
    ELSE [scopes |-> [scopes EXCEPT ![Max(h)] = insert(scopes[Max(h)], name, value)],
          found |-> TRUE]

get(scopes, name) ==
    LET h == holders(scopes, name) IN
    IF h = {} THEN None ELSE Some(scopes[Max(h)][name])

----------------------------------------------------------------------------
(* ast.rs : Span, Stmt, Expr.  A node is a record tagged by k.             *)

Sp(l, c) == [line |-> l, column |-> c]

\* Option<Expr>::None and Option<Vec<Stmt>>::None
NoExpr == [k |-> "None"]
NoBody == [some |-> FALSE, body |-> <<>>]
SomeBody(b) == [some |-> TRUE, body |-> b]

LocalDecl(name, init, span) == [k |-> "LocalDecl", name |-> name, init |-> init, span |-> span]
Assign(target, value, span) == [k |-> "Assign", target |-> target, value |-> value, span |-> span]
ExprStmt(expr, span) == [k |-> "ExprStmt", expr |-> expr, span |-> span]
If(condition, then_body, elseif_clauses, else_body, span) ==
    [k |-> "If", condition |-> condition, then_body |-> then_body,
     elseif_clauses |-> elseif_clauses, else_body |-> else_body, span |-> span]
While(condition, body, span) == [k |-> "While", condition |-> condition, body |-> body, span |-> span]
NumericFor(var, start, limit, step, body, span) ==
    [k |-> "NumericFor", var |-> var, start |-> start, limit |-> limit, step |-> step,
     body |-> body, span |-> span]
GenericFor(fvars, iter, body, span) ==
    [k |-> "GenericFor", vars |-> fvars, iter |-> iter, body |-> body, span |-> span]
RepeatUntil(body, condition, span) ==
    [k |-> "RepeatUntil", body |-> body, condition |-> condition, span |-> span]
Blueprint(name, params, body, span) ==
    [k |-> "Blueprint", name |-> name, params |-> params, body |-> body, span |-> span]
Build(name, args, span) == [k |-> "Build", name |-> name, args |-> args, span |-> span]
Return(value, span) == [k |-> "Return", value |-> value, span |-> span]
Break(span) == [k |-> "Break", span |-> span]
Continue(span) == [k |-> "Continue", span |-> span]

NumberLit(value) == [k |-> "NumberLit", value |-> value]
StringLit(value) == [k |-> "StringLit", value |-> value]
BoolLit(value) == [k |-> "BoolLit", value |-> value]
NilLit == [k |-> "NilLit"]
Ident(name, span) == [k |-> "Ident", name |-> name, span |-> span]
BinaryOp(left, bop, right, span) ==
    [k |-> "BinaryOp", left |-> left, op |-> bop, right |-> right, span |-> span]
UnaryOp(uop, operand, span) == [k |-> "UnaryOp", op |-> uop, operand |-> operand, span |-> span]
Call(callee, args, span) == [k |-> "Call", callee |-> callee, args |-> args, span |-> span]
FieldAccess(object, field, span) ==
    [k |-> "FieldAccess", object |-> object, field |-> field, span |-> span]
IndexAccess(object, index, span) ==
    [k |-> "IndexAccess", object |-> object, index |-> index, span |-> span]
MethodCall(object, method, args, span) ==
    [k |-> "MethodCall", object |-> object, method |-> method, args |-> args, span |-> span]
ArrayLit(elements) == [k |-> "ArrayLit", elements |-> elements]
TableLit(fields) == [k |-> "TableLit", fields |-> fields]

----------------------------------------------------------------------------
(* error.rs : GroveError.  A message is the sequence of its pieces.        *)

NoError == [kind |-> "", message |-> <<>>, line |-> 0, column |-> 0]
GroveError(kind, message, line, column) ==
    [kind |-> kind, message |-> message, line |-> line, column |-> column]
syntax(message, line, column) == GroveError("Syntax", message, line, column)
runtime(message, line, column) == GroveError("Runtime", message, line, column)
type_error(message, line, column) == GroveError("Type", message, line, column)
name_error(message, line, column) == GroveError("NameError", message, line, column)
instruction_limit(line, column) ==
    GroveError("InstructionLimit", <<"instruction limit exceeded">>, line, column)

\* impl Display for GroveError: "[line {}:{}] {:?}: {}"
error_display(e) == <<"[line", ToString(e.line), ToString(e.column), e.kind>> \o e.message

----------------------------------------------------------------------------
(* GroveResult<..> threaded with the interpreter *)

Ok(it, v) == [it |-> it, ok |-> TRUE, cf |-> "None", v |-> v, err |-> NoError]
OkCf(it, cf, v) == [it |-> it, ok |-> TRUE, cf |-> cf, v |-> v, err |-> NoError]
Err(it, e) == [it |-> it, ok |-> FALSE, cf |-> "None", v |-> VNil, err |-> e]

----------------------------------------------------------------------------
(* lib.rs : the FFI value record and the two conversions                   *)

NullPtr == [null |-> TRUE]
GroveValue(tag, data) == [tag |-> tag, data |-> data]
GvNil == GroveValue(0, [bool_val |-> 0])

grove_value_to_value(gv) ==
    CASE gv.tag = 0 -> VNil
      [] gv.tag = 1 -> VBool(gv.data.bool_val # 0)
      [] gv.tag = 2 -> VNumber(gv.data.number_val)
      [] gv.tag = 3 ->
            IF gv.data.string_val.ptr = NullPtr THEN VString("")
            ELSE VString(SubSeq(gv.data.string_val.ptr.bytes, 1, gv.data.string_val.len))
      [] gv.tag = 4 -> VVec3(gv.data.vec3_val.x, gv.data.vec3_val.y, gv.data.vec3_val.z)
      [] OTHER -> VObject(gv.data.object_handle)

\* `n as u32` for a length n: n modulo 2^32, written with factors the model
\* checker can represent; every length it can represent is below 2^31
as_u32(n) == n - ((n \div 65536) \div 65536) * 65536 * 65536

\* a faulty conversion, dropping the last byte of a string (C20 must reject it)
value_to_grove_value_short(val) ==
    CASE val.t = "Nil" -> GroveValue(0, [bool_val |-> 0])
      [] val.t = "Bool" -> GroveValue(1, [bool_val |-> IF val.b THEN 1 ELSE 0])
      [] val.t = "Number" -> GroveValue(2, [number_val |-> val.n])
      [] val.t = "String" ->
            GroveValue(3, [string_val |-> [ptr |-> [null |-> FALSE, bytes |-> val.s],
                                           len |-> IF Len(val.s) > 0 THEN Len(val.s) - 1
                                                   ELSE 0]])
      [] val.t = "Vec3" -> GroveValue(4, [vec3_val |-> [x |-> val.x, y |-> val.y, z |-> val.z]])
      [] val.t = "Object" -> GroveValue(5, [object_handle |-> val.h])
      [] OTHER -> GroveValue(0, [bool_val |-> 0])

value_to_grove_value(val) ==
    CASE val.t = "Nil" -> GroveValue(0, [bool_val |-> 0])
      [] val.t = "Bool" -> GroveValue(1, [bool_val |-> IF val.b THEN 1 ELSE 0])
      [] val.t = "Number" -> GroveValue(2, [number_val |-> val.n])
      [] val.t = "String" ->
            GroveValue(3, [string_val |-> [ptr |-> [null |-> FALSE, bytes |-> val.s],
                                           len |-> as_u32(Len(val.s))]])
      [] val.t = "Vec3" -> GroveValue(4, [vec3_val |-> [x |-> val.x, y |-> val.y, z |-> val.z]])
      [] val.t = "Object" -> GroveValue(5, [object_handle |-> val.h])
      [] OTHER -> GroveValue(0, [bool_val |-> 0])

----------------------------------------------------------------------------
(* interpreter.rs : Interpreter                                            *)
(* trace is the record of what an execute did, as the host can observe it: *)
(* the ticks (counter value and line) and the host callbacks (name, args). *)
(* hash_order is the iteration order the process's hasher keys give to the *)
(* tables an execute builds (see display_table).                            *)

Ev(e, name, c, line, args) == [e |-> e, name |-> name, c |-> c, line |-> line, args |-> args]

DefaultInstructionLimit == 1000000

InterpreterNew ==
    [env |-> EnvNew, host_fns |-> EmptyMap, blueprints |-> EmptyMap,
     instruction_count |-> 0, instruction_limit |-> DefaultInstructionLimit,
     trace |-> <<>>, hash_order |-> <<>>]

set_instruction_limit(it, limit) == [it EXCEPT !.instruction_limit = limit]
register_fn(it, name, func) == [it EXCEPT !.host_fns = insert(@, name, func)]
set_global(it, name, value) == [it EXCEPT !.env = define(@, name, value)]

\* a faulty tick, aborting already at the limit (C1 must reject it)
tick_at_limit(it, line, col) ==
    LET c == it.instruction_count + 1
        it2 == [it EXCEPT !.instruction_count = c,
                          !.trace = Append(@, Ev("tick", "", c, line, <<>>))]
    IN IF c >= it.instruction_limit THEN Err(it2, instruction_limit(line, col))
       ELSE Ok(it2, VNil)

\* a faulty tick that lets one instruction above the limit pass (C27 must
\* reject it)
tick_one_over(it, line, col) ==
    LET c == it.instruction_count + 1
        it2 == [it EXCEPT !.instruction_count = c,
                          !.trace = Append(@, Ev("tick", "", c, line, <<>>))]
    IN IF c > it.instruction_limit + 1 THEN Err(it2, instruction_limit(line, col))
       ELSE Ok(it2, VNil)

tick(it, line, col) ==
    LET c == it.instruction_count + 1
        it2 == [it EXCEPT !.instruction_count = c,
                          !.trace = Append(@, Ev("tick", "", c, line, <<>>))]
    IN IF c > it.instruction_limit THEN Err(it2, instruction_limit(line, col))
       ELSE Ok(it2, VNil)

\* `n as usize` on an f64: a saturating cast that truncates toward zero
as_usize(n) == IF n < 0 THEN 0 ELSE n

RECURSIVE IntPow(_, _)
IntPow(a, b) == IF b <= 0 THEN 1 ELSE a * IntPow(a, b - 1)

\* f64 `%`: the remainder has the sign of the dividend
FRem(a, b) ==
    LET aa == IF a < 0 THEN -a ELSE a
        bb == IF b < 0 THEN -b ELSE b
    IN IF a < 0 THEN -(aa % bb) ELSE aa % bb

\* the closures handed to numeric_op, on the integer-valued numbers of the model
apply_f(f, a, b) ==
    CASE f = "+" -> a + b
      [] f = "-" -> a - b
      [] f = "*" -> a * b
      [] f = "/" -> a \div b
      [] f = "%" -> FRem(a, b)
      [] OTHER -> IntPow(a, b)

numeric_op(it, left, right, f, span) ==
    IF left.t = "Number" /\ right.t = "Number"
    THEN Ok(it, VNumber(apply_f(f, left.n, right.n)))
    ELSE IF left.t = "Vec3" /\ right.t = "Vec3" /\ f \in {"+", "-"}
    THEN Ok(it, VVec3(apply_f(f, left.x, right.x), apply_f(f, left.y, right.y),
                      apply_f(f, left.z, right.z)))
    ELSE IF left.t = "Vec3" /\ right.t = "Number" /\ f \in {"*", "/"}
    THEN Ok(it, VVec3(apply_f(f, left.x, right.n), apply_f(f, left.y, right.n),
                      apply_f(f, left.z, right.n)))
    ELSE IF left.t = "Number" /\ right.t = "Vec3" /\ f = "*"
    THEN Ok(it, VVec3(apply_f(f, left.n, right.x), apply_f(f, left.n, right.y),
                      apply_f(f, left.n, right.z)))
    ELSE Err(it, type_error(<<"cannot apply", f, "to", type_name(left), "and", type_name(right)>>,
                            span.line, span.column))

\* String::cmp on the strings the model's programs compare: -1, 0, 1
StringOrder == <<"", "a", "b", "big", "small">>
str_rank(s) == CHOOSE i \in 1..Len(StringOrder) : StringOrder[i] = s
str_cmp(a, b) ==
    IF str_rank(a) < str_rank(b) THEN -1 ELSE IF str_rank(a) > str_rank(b) THEN 1 ELSE 0

compare_op(it, left, right, f, span) ==
    IF left.t = "Number" /\ right.t = "Number"
    THEN Ok(it, VBool(CASE f = "<" -> left.n < right.n
                        [] f = "<=" -> left.n <= right.n
                        [] f = ">" -> left.n > right.n
                        [] OTHER -> left.n >= right.n))
    ELSE IF left.t = "String" /\ right.t = "String"
    THEN LET cmp == str_cmp(left.s, right.s) IN
         Ok(it, VBool(CASE f = "<" -> cmp = -1
                        [] f = "<=" -> cmp # 1
                        [] f = ">" -> cmp = 1
                        [] f = ">=" -> cmp # -1
                        [] OTHER -> FALSE))
    ELSE Err(it, type_error(<<"cannot compare", type_name(left), "and", type_name(right),
                              "with", f>>, span.line, span.column))

\* impl Display for Value. A table is a std HashMap: map.iter() visits the
\* keys in an order fixed by the hasher keys RandomState::new() drew for that
\* map, which no program controls. `ord` stands for that draw: the keys come
\* out in the order they have in `ord`, keys not listed in it after them.
hash_first(ord, rest) ==
    IF \E i \in DOMAIN ord : ord[i] \in rest
    THEN ord[CHOOSE i \in DOMAIN ord :
                /\ ord[i] \in rest
                /\ \A j \in DOMAIN ord : ord[j] \in rest => i <= j]
    ELSE CHOOSE x \in rest : TRUE

RECURSIVE display(_, _), display_seq(_, _, _), display_table(_, _, _)
display(ord, v) ==
    CASE v.t = "Nil" -> "nil"
      [] v.t = "Bool" -> IF v.b THEN "true" ELSE "false"
      [] v.t = "Number" -> ToString(v.n)
      [] v.t = "String" -> v.s
      [] v.t = "Vec3" ->
            "vec3(" \o ToString(v.x) \o ", " \o ToString(v.y) \o ", " \o ToString(v.z) \o ")"
      [] v.t = "Array" -> "[" \o display_seq(ord, v.a, 1) \o "]"
      [] v.t = "Table" -> "{" \o display_table(ord, v.m, DOMAIN v.m) \o "}"
      [] OTHER -> "<object:" \o ToString(v.h) \o ">"
display_seq(ord, a, i) ==
    IF i > Len(a) THEN ""
    ELSE (IF i > 1 THEN ", " ELSE "") \o display(ord, a[i]) \o display_seq(ord, a, i + 1)
display_table(ord, m, rest) ==
    IF rest = {} THEN ""
    ELSE LET k == hash_first(ord, rest) IN
         (IF rest # DOMAIN m THEN ", " ELSE "") \o k \o " = " \o display(ord, m[k])
            \o display_table(ord, m, rest \ {k})

eval_binary_op(it, bop, left, right, span) ==
    CASE bop = "Add" -> numeric_op(it, left, right, "+", span)
      [] bop = "Sub" -> numeric_op(it, left, right, "-", span)
      [] bop = "Mul" -> numeric_op(it, left, right, "*", span)
      [] bop = "Div" ->
            IF left.t = "Number" /\ right.t = "Number" /\ right.n = 0
            THEN Err(it, runtime(<<"division by zero">>, span.line, span.column))
            ELSE numeric_op(it, left, right, "/", span)
      [] bop = "Mod" -> numeric_op(it, left, right, "%", span)
      [] bop = "Pow" -> numeric_op(it, left, right, "^", span)
      [] bop = "Concat" ->
            Ok(it, VString(display(it.hash_order, left) \o display(it.hash_order, right)))
      [] bop = "Eq" -> Ok(it, VBool(value_eq(left, right)))
      [] bop = "NotEq" -> Ok(it, VBool(~value_eq(left, right)))
      [] bop = "Lt" -> compare_op(it, left, right, "<", span)
      [] bop = "LtEq" -> compare_op(it, left, right, "<=", span)
      [] bop = "Gt" -> compare_op(it, left, right, ">", span)
      [] OTHER -> compare_op(it, left, right, ">=", span)

builtin_vec3(it, args, span) ==
    IF Len(args) # 3
    THEN Err(it, runtime(<<"vec3() expects 3 arguments, got", ToString(Len(args))>>,
                         span.line, span.column))
    ELSE IF args[1].t # "Number"
    THEN Err(it, type_error(<<"vec3 x must be a number">>, span.line, span.column))
    ELSE IF args[2].t # "Number"
    THEN Err(it, type_error(<<"vec3 y must be a number">>, span.line, span.column))
    ELSE IF args[3].t # "Number"
    THEN Err(it, type_error(<<"vec3 z must be a number">>, span.line, span.column))
    ELSE Ok(it, VVec3(args[1].n, args[2].n, args[3].n))

expr_name(expr) == IF expr.k = "Ident" THEN expr.name ELSE "<expression>"

\* lib.rs: the closure grove_register_fn stores.  The C callback is host
\* code; it is modelled by what it returns (ret) and what it leaves in
\* out_result, and the call it receives is appended to the trace.
HostFn(callback, err_name) == [callback |-> callback, err_name |-> err_name]
\* a faulty closure, taking the result whatever the callback returned
\* (C19 must reject it)
host_fn_call_ignore_code(it, func, args) ==
    LET ffi_args == [i \in 1..Len(args) |-> value_to_grove_value(args[i])]
        it2 == [it EXCEPT !.trace =
                   Append(@, Ev("host", func.err_name, it.instruction_count, 0, ffi_args))]
    IN [it |-> it2, ok |-> TRUE, v |-> grove_value_to_value(func.callback.result),
        msg |-> <<>>]

host_fn_call(it, func, args) ==
    LET ffi_args == [i \in 1..Len(args) |-> value_to_grove_value(args[i])]
        it2 == [it EXCEPT !.trace =
                   Append(@, Ev("host", func.err_name, it.instruction_count, 0, ffi_args))]
        ret == func.callback.ret
    IN IF ret = 0
       THEN [it |-> it2, ok |-> TRUE, v |-> grove_value_to_value(func.callback.result),
             msg |-> <<>>]
       ELSE [it |-> it2, ok |-> FALSE, v |-> VNil,
             msg |-> <<"host function", func.err_name, "returned error code", ToString(ret)>>]

----------------------------------------------------------------------------
(* interpreter.rs : exec_stmt, exec_block, call_blueprint, eval_expr       *)

\* A method calling exec_stmt or eval_expr on self: every such call goes
\* through one recursive operator.
RECURSIVE self(_, _, _)
self_exec_stmt(it, stmt) == self("exec_stmt", it, stmt)
self_eval_expr(it, expr) == self("eval_expr", it, expr)

\* a faulty write-back with reference semantics: every binding that holds
\* the container the base names is given the update (C26 must reject it)
set_value_at_aliased(it, expr, value) ==
    IF expr.k = "Ident"
    THEN LET old == get(it.env, expr.name)
             e == it.env
         IN IF ~old.some
            THEN Err(it, name_error(<<"undefined variable", expr.name>>,
                                    expr.span.line, expr.span.column))
            ELSE Ok([it EXCEPT !.env =
                       [s \in DOMAIN e |->
                          [n \in DOMAIN e[s] |-> IF e[s][n] = old.v THEN value ELSE e[s][n]]]],
                    VNil)
    ELSE Ok(it, VNil)

\* set_value_at: write a container back to the variable the base names
set_value_at(it, expr, value) ==
    IF expr.k = "Ident"
    THEN LET sr == set(it.env, expr.name, value) IN
         IF ~sr.found
         THEN Err(it, name_error(<<"undefined variable", expr.name>>,
                                 expr.span.line, expr.span.column))
         ELSE Ok([it EXCEPT !.env = sr.scopes], VNil)
    ELSE Ok(it, VNil)

\* a faulty statement loop that runs the rest of a block after a Break,
\* Continue or Return and hands on the last signal (C23 must reject it)
RECURSIVE exec_stmts_through(_, _, _, _)
exec_stmts_through(it, stmts, i, last) ==
    IF i > Len(stmts) THEN [last EXCEPT !.it = it]
    ELSE LET r == self_exec_stmt(it, stmts[i]) IN
         IF ~r.ok THEN r
         ELSE exec_stmts_through(r.it, stmts, i + 1, IF r.cf # "None" THEN r ELSE last)
exec_stmts_from_through(it, stmts, i) == exec_stmts_through(it, stmts, i, Ok(it, VNil))

\* the `for stmt in stmts` loop of exec_block_no_scope, from statement i on
RECURSIVE exec_stmts_from(_, _, _)
exec_stmts_from(it, stmts, i) ==
    IF i > Len(stmts) THEN Ok(it, VNil)
    ELSE LET r == self_exec_stmt(it, stmts[i]) IN
         IF ~r.ok THEN r
         ELSE IF r.cf # "None" THEN r
         ELSE exec_stmts_from(r.it, stmts, i + 1)

exec_block_no_scope(it, stmts) == exec_stmts_from(it, stmts, 1)

exec_block(it, stmts) ==
    LET r == exec_block_no_scope([it EXCEPT !.env = push_scope(@)], stmts) IN
    [r EXCEPT !.it.env = pop_scope(@)]

\* a faulty parameter loop, leaving a parameter without argument unbound
\* (C17 must reject it)
RECURSIVE bind_params_skip_missing(_, _, _, _)
bind_params_skip_missing(scopes, params, args, i) ==
    IF i > Len(params) THEN scopes
    ELSE bind_params_skip_missing(IF i <= Len(args) THEN define(scopes, params[i], args[i])
                                  ELSE scopes,
                                  params, args, i + 1)

\* the parameter loop of call_blueprint
RECURSIVE bind_params(_, _, _, _)
bind_params(scopes, params, args, i) ==
    IF i > Len(params) THEN scopes
    ELSE bind_params(define(scopes, params[i], IF i <= Len(args) THEN args[i] ELSE VNil),
                     params, args, i + 1)

call_blueprint(it, params, args, body, span) ==
    LET it1 == [it EXCEPT !.env = bind_params(push_scope(@), params, args, 1)]
        r == exec_block_no_scope(it1, body)
    IN IF ~r.ok THEN r
       ELSE Ok([r.it EXCEPT !.env = pop_scope(@)], IF r.cf = "Return" THEN r.v ELSE VNil)

\* a faulty argument loop that evaluates the last expression first (C24 must
\* reject it)
RECURSIVE eval_exprs_right_to_left(_, _, _, _)
eval_exprs_right_to_left(it, exprs, i, acc) ==
    IF i > Len(exprs) THEN Ok(it, acc)
    ELSE LET r == self_eval_expr(it, exprs[Len(exprs) - i + 1]) IN
         IF ~r.ok THEN r ELSE eval_exprs_right_to_left(r.it, exprs, i + 1, <<r.v>> \o acc)

\* the argument / element loops: evaluate exprs[i..] left to right onto acc
RECURSIVE eval_exprs(_, _, _, _)
eval_exprs(it, exprs, i, acc) ==
    IF i > Len(exprs) THEN Ok(it, acc)
    ELSE LET r == self_eval_expr(it, exprs[i]) IN
         IF ~r.ok THEN r ELSE eval_exprs(r.it, exprs, i + 1, Append(acc, r.v))

\* the field loop of Expr::TableLit: fields[i] = <<key, expr>>
RECURSIVE eval_fields(_, _, _, _)
eval_fields(it, fields, i, map) ==
    IF i > Len(fields) THEN Ok(it, VTable(map))
    ELSE LET r == self_eval_expr(it, fields[i][2]) IN
         IF ~r.ok THEN r ELSE eval_fields(r.it, fields, i + 1, insert(map, fields[i][1], r.v))

\* a faulty resolution order, blueprint first (C10 must reject it)
call_blueprint_first(it, expr, arg_vals) ==
    LET callee == expr.callee IN
    IF callee.k = "Ident" /\ contains_key(it.blueprints, callee.name)
    THEN call_blueprint(it, it.blueprints[callee.name].params, arg_vals,
                        it.blueprints[callee.name].body, expr.span)
    ELSE IF callee.k = "Ident" /\ contains_key(it.host_fns, callee.name)
    THEN LET h == host_fn_call(it, it.host_fns[callee.name], arg_vals) IN
         IF h.ok THEN Ok(h.it, h.v)
         ELSE Err(h.it, runtime(h.msg, expr.span.line, expr.span.column))
    ELSE IF callee.k = "Ident" /\ callee.name = "vec3"
    THEN builtin_vec3(it, arg_vals, expr.span)
    ELSE Err(it, name_error(<<"undefined function", expr_name(callee)>>,
                            expr.span.line, expr.span.column))

\* Expr::Call after the arguments: vec3, then host function, then blueprint
call_resolve(it, expr, arg_vals) ==
    LET callee == expr.callee IN
    IF callee.k = "Ident" /\ callee.name = "vec3"
    THEN builtin_vec3(it, arg_vals, expr.span)
    ELSE IF callee.k = "Ident" /\ contains_key(it.host_fns, callee.name)
    THEN LET h == host_fn_call(it, it.host_fns[callee.name], arg_vals) IN
         IF h.ok THEN Ok(h.it, h.v)
         ELSE Err(h.it, runtime(h.msg, expr.span.line, expr.span.column))
    ELSE IF callee.k = "Ident" /\ contains_key(it.blueprints, callee.name)
    THEN call_blueprint(it, it.blueprints[callee.name].params, arg_vals,
                        it.blueprints[callee.name].body, expr.span)
    ELSE Err(it, name_error(<<"undefined function", expr_name(callee)>>,
                            expr.span.line, expr.span.column))

\* a faulty And / Or that evaluates both operands (C6 must reject it)
short_circuit_eager(it, expr) ==
    LET l == self_eval_expr(it, expr.left) IN
    IF ~l.ok THEN l
    ELSE LET r == self_eval_expr(l.it, expr.right) IN
         IF ~r.ok THEN r
         ELSE IF expr.op = "And" THEN (IF ~is_truthy(l.v) THEN Ok(r.it, l.v) ELSE r)
         ELSE (IF is_truthy(l.v) THEN Ok(r.it, l.v) ELSE r)

\* Expr::BinaryOp with And / Or
short_circuit(it, expr) ==
    LET l == self_eval_expr(it, expr.left) IN
    IF ~l.ok THEN l
    ELSE IF expr.op = "And"
    THEN (IF ~is_truthy(l.v) THEN l ELSE self_eval_expr(l.it, expr.right))
    ELSE (IF is_truthy(l.v) THEN l ELSE self_eval_expr(l.it, expr.right))

\* a faulty field access, reading a missing Vec3 field as Nil (C15 must reject it)
field_access_lenient(it, expr, obj) ==
    IF obj.t = "Vec3"
    THEN Ok(it, CASE expr.field = "x" -> VNumber(obj.x)
                  [] expr.field = "y" -> VNumber(obj.y)
                  [] expr.field = "z" -> VNumber(obj.z)
                  [] OTHER -> VNil)
    ELSE IF obj.t = "Table"
    THEN Ok(it, IF contains_key(obj.m, expr.field) THEN obj.m[expr.field] ELSE VNil)
    ELSE Err(it, type_error(<<"cannot access field", expr.field, "on", type_name(obj)>>,
                            expr.span.line, expr.span.column))

\* Expr::FieldAccess: the match on the evaluated object
field_access(it, expr, obj) ==
    IF obj.t = "Vec3"
    THEN CASE expr.field = "x" -> Ok(it, VNumber(obj.x))
           [] expr.field = "y" -> Ok(it, VNumber(obj.y))
           [] expr.field = "z" -> Ok(it, VNumber(obj.z))
           [] OTHER -> Err(it, runtime(<<"vec3 has no field", expr.field>>,
                                       expr.span.line, expr.span.column))
    ELSE IF obj.t = "Table"
    THEN Ok(it, IF contains_key(obj.m, expr.field) THEN obj.m[expr.field] ELSE VNil)
    ELSE Err(it, type_error(<<"cannot access field", expr.field, "on", type_name(obj)>>,
                            expr.span.line, expr.span.column))

eval_expr(it, expr) ==
    CASE expr.k = "NumberLit" -> Ok(it, VNumber(expr.value))
      [] expr.k = "StringLit" -> Ok(it, VString(expr.value))
      [] expr.k = "BoolLit" -> Ok(it, VBool(expr.value))
      [] expr.k = "NilLit" -> Ok(it, VNil)
      [] expr.k = "Ident" ->
            LET g == get(it.env, expr.name) IN
            IF g.some THEN Ok(it, g.v)
            ELSE Err(it, name_error(<<"undefined variable", expr.name>>,
                                    expr.span.line, expr.span.column))
      [] expr.k = "BinaryOp" ->
            IF expr.op \in {"And", "Or"} THEN short_circuit(it, expr)
            ELSE LET l == self_eval_expr(it, expr.left) IN
                 IF ~l.ok THEN l
                 ELSE LET r == self_eval_expr(l.it, expr.right) IN
                      IF ~r.ok THEN r
                      ELSE eval_binary_op(r.it, expr.op, l.v, r.v, expr.span)
      [] expr.k = "UnaryOp" ->
            LET o == self_eval_expr(it, expr.operand) IN
            IF ~o.ok THEN o
            ELSE IF expr.op = "Neg"
            THEN IF o.v.t = "Number" THEN Ok(o.it, VNumber(-o.v.n))
                 ELSE Err(o.it, type_error(<<"cannot negate", type_name(o.v)>>,
                                           expr.span.line, expr.span.column))
            ELSE IF expr.op = "Not" THEN Ok(o.it, VBool(~is_truthy(o.v)))
            ELSE CASE o.v.t = "String" -> Ok(o.it, VNumber(Len(o.v.s)))
                   [] o.v.t = "Array" -> Ok(o.it, VNumber(Len(o.v.a)))
                   [] o.v.t = "Table" -> Ok(o.it, VNumber(Cardinality(DOMAIN o.v.m)))
                   [] OTHER -> Err(o.it, type_error(<<"cannot get length of", type_name(o.v)>>,
                                                    expr.span.line, expr.span.column))
      [] expr.k = "Call" ->
            LET a == eval_exprs(it, expr.args, 1, <<>>) IN
            IF ~a.ok THEN a ELSE call_resolve(a.it, expr, a.v)
      [] expr.k = "FieldAccess" ->
            LET o == self_eval_expr(it, expr.object) IN
            IF ~o.ok THEN o ELSE field_access(o.it, expr, o.v)
      [] expr.k = "IndexAccess" ->
            LET o == self_eval_expr(it, expr.object) IN
            IF ~o.ok THEN o
            ELSE LET ix == self_eval_expr(o.it, expr.index) IN
            IF ~ix.ok THEN ix
            ELSE IF o.v.t = "Array" /\ ix.v.t = "Number"
            THEN LET i == as_usize(ix.v.n) IN
                 Ok(ix.it, IF i < Len(o.v.a) THEN o.v.a[i + 1] ELSE VNil)
            ELSE IF o.v.t = "Table" /\ ix.v.t = "String"
            THEN Ok(ix.it, IF contains_key(o.v.m, ix.v.s) THEN o.v.m[ix.v.s] ELSE VNil)
            ELSE IF o.v.t = "String" /\ ix.v.t = "Number"
            THEN LET i == as_usize(ix.v.n) IN
                 Ok(ix.it, IF i < Len(o.v.s) THEN VString(SubSeq(o.v.s, i + 1, i + 1)) ELSE VNil)
            ELSE Err(ix.it, type_error(<<"cannot index", type_name(o.v), "with", type_name(ix.v)>>,
                                       expr.span.line, expr.span.column))
      [] expr.k = "MethodCall" ->
            LET o == self_eval_expr(it, expr.object) IN
            IF ~o.ok THEN o
            ELSE LET a == eval_exprs(o.it, expr.args, 1, <<>>) IN
                 IF ~a.ok THEN a
                 ELSE Err(a.it, runtime(<<"method call", expr.method, "on", type_name(o.v),
                                          "not yet implemented">>,
                                        expr.span.line, expr.span.column))
      [] expr.k = "ArrayLit" ->
            LET a == eval_exprs(it, expr.elements, 1, <<>>) IN
            IF ~a.ok THEN a ELSE Ok(a.it, VArray(a.v))
      [] OTHER -> eval_fields(it, expr.fields, 1, EmptyMap)

\* the elseif loop of Stmt::If, from clause i on, then the else body
RECURSIVE elseif_chain(_, _, _)
elseif_chain(it, stmt, i) ==
    IF i > Len(stmt.elseif_clauses)
    THEN IF stmt.else_body.some THEN exec_block(it, stmt.else_body.body) ELSE Ok(it, VNil)
    ELSE LET c == self_eval_expr(it, stmt.elseif_clauses[i].cond) IN
         IF ~c.ok THEN c
         ELSE IF is_truthy(c.v) THEN exec_block(c.it, stmt.elseif_clauses[i].body)
         ELSE elseif_chain(c.it, stmt, i + 1)

\* the `loop` of Stmt::While
RECURSIVE while_loop(_, _)
while_loop(it, stmt) ==
    LET c == self_eval_expr(it, stmt.condition) IN
    IF ~c.ok THEN c
    ELSE IF ~is_truthy(c.v) THEN Ok(c.it, VNil)
    ELSE LET b == exec_block(c.it, stmt.body) IN
         IF ~b.ok THEN b
         ELSE IF b.cf = "Break" THEN Ok(b.it, VNil)
         ELSE IF b.cf = "Continue" THEN while_loop(b.it, stmt)
         ELSE IF b.cf = "Return" THEN b
         ELSE LET t == tick(b.it, stmt.span.line, stmt.span.column) IN
              IF ~t.ok THEN t ELSE while_loop(t.it, stmt)

\* a faulty loop, leaving already when i reaches the limit (C16 must reject it)
RECURSIVE for_loop_exclusive(_, _, _, _, _)
for_loop_exclusive(it, stmt, i, limit_val, step_val) ==
    IF (step_val > 0 /\ i >= limit_val) \/ (step_val < 0 /\ i <= limit_val)
    THEN Ok([it EXCEPT !.env = pop_scope(@)], VNil)
    ELSE LET it1 == [it EXCEPT !.env = define(@, stmt.var, VNumber(i))]
             t == tick(it1, stmt.span.line, stmt.span.column)
         IN IF ~t.ok THEN t
            ELSE LET b == exec_block_no_scope(t.it, stmt.body) IN
                 IF ~b.ok THEN b
                 ELSE IF b.cf = "Break" THEN Ok([b.it EXCEPT !.env = pop_scope(@)], VNil)
                 ELSE IF b.cf = "Return" THEN [b EXCEPT !.it.env = pop_scope(@)]
                 ELSE for_loop_exclusive(b.it, stmt, i + step_val, limit_val, step_val)

\* a faulty loop that steps from the value the body left in the loop
\* variable (C30 must reject it)
RECURSIVE for_loop_from_variable(_, _, _, _, _)
for_loop_from_variable(it, stmt, i, limit_val, step_val) ==
    IF (step_val > 0 /\ i > limit_val) \/ (step_val < 0 /\ i < limit_val)
    THEN Ok([it EXCEPT !.env = pop_scope(@)], VNil)
    ELSE LET it1 == [it EXCEPT !.env = define(@, stmt.var, VNumber(i))]
             t == tick(it1, stmt.span.line, stmt.span.column)
         IN IF ~t.ok THEN t
            ELSE LET b == exec_block_no_scope(t.it, stmt.body) IN
                 IF ~b.ok THEN b
                 ELSE IF b.cf = "Break" THEN Ok([b.it EXCEPT !.env = pop_scope(@)], VNil)
                 ELSE IF b.cf = "Return" THEN [b EXCEPT !.it.env = pop_scope(@)]
                 ELSE for_loop_from_variable(b.it, stmt,
                                             get(b.it.env, stmt.var).v.n + step_val,
                                             limit_val, step_val)

\* the `loop` of Stmt::NumericFor; the scope was pushed by the caller
RECURSIVE for_loop(_, _, _, _, _)
for_loop(it, stmt, i, limit_val, step_val) ==
    IF (step_val > 0 /\ i > limit_val) \/ (step_val < 0 /\ i < limit_val)
    THEN Ok([it EXCEPT !.env = pop_scope(@)], VNil)
    ELSE LET it1 == [it EXCEPT !.env = define(@, stmt.var, VNumber(i))]
             t == tick(it1, stmt.span.line, stmt.span.column)
         IN IF ~t.ok THEN t
            ELSE LET b == exec_block_no_scope(t.it, stmt.body) IN
                 IF ~b.ok THEN b
                 ELSE IF b.cf = "Break" THEN Ok([b.it EXCEPT !.env = pop_scope(@)], VNil)
                 ELSE IF b.cf = "Return" THEN [b EXCEPT !.it.env = pop_scope(@)]
                 ELSE for_loop(b.it, stmt, i + step_val, limit_val, step_val)

\* the `loop` of Stmt::RepeatUntil
RECURSIVE repeat_loop(_, _)
repeat_loop(it, stmt) ==
    LET b == exec_block(it, stmt.body) IN
    IF ~b.ok THEN b
    ELSE IF b.cf = "Break" THEN Ok(b.it, VNil)
    ELSE IF b.cf = "Return" THEN b
    ELSE LET c == self_eval_expr(b.it, stmt.condition) IN
         IF ~c.ok THEN c
         ELSE IF is_truthy(c.v) THEN Ok(c.it, VNil)
         ELSE LET t == tick(c.it, stmt.span.line, stmt.span.column) IN
              IF ~t.ok THEN t ELSE repeat_loop(t.it, stmt)

\* Stmt::Assign after the tick and the evaluation of the value
assign_to(it, stmt, val) ==
    LET target == stmt.target IN
    IF target.k = "Ident"
    THEN LET sr == set(it.env, target.name, val) IN
         IF ~sr.found
         THEN Err(it, name_error(<<"undefined variable", target.name>>,
                                 target.span.line, target.span.column))
         ELSE Ok([it EXCEPT !.env = sr.scopes], VNil)
    ELSE IF target.k = "FieldAccess"
    THEN LET o == self_eval_expr(it, target.object) IN
         IF ~o.ok THEN o
         ELSE IF o.v.t = "Table"
         THEN set_value_at(o.it, target.object, VTable(insert(o.v.m, target.field, val)))
         ELSE Err(o.it, type_error(<<"cannot set field", target.field, "on", type_name(o.v)>>,
                                   target.span.line, target.span.column))
    ELSE IF target.k = "IndexAccess"
    THEN LET ix == self_eval_expr(it, target.index) IN
         IF ~ix.ok THEN ix
         ELSE LET o == self_eval_expr(ix.it, target.object) IN
         IF ~o.ok THEN o
         ELSE IF o.v.t = "Array" /\ ix.v.t = "Number"
         THEN LET i == as_usize(ix.v.n) IN
              IF i < Len(o.v.a)
              THEN set_value_at(o.it, target.object, VArray([o.v.a EXCEPT ![i + 1] = val]))
              ELSE Err(o.it, runtime(<<"array index", ToString(i), "out of bounds (len",
                                       ToString(Len(o.v.a))>>,
                                     target.span.line, target.span.column))
         ELSE IF o.v.t = "Table" /\ ix.v.t = "String"
         THEN set_value_at(o.it, target.object, VTable(insert(o.v.m, ix.v.s, val)))
         ELSE Err(o.it, type_error(<<"cannot index", type_name(o.v), "with", type_name(ix.v)>>,
                                   target.span.line, target.span.column))
    ELSE Err(it, runtime(<<"invalid assignment target">>, stmt.span.line, stmt.span.column))

\* Stmt::NumericFor after the tick: start, limit, step, then the loop
numeric_for(it, stmt) ==
    LET sp == stmt.span
        s == self_eval_expr(it, stmt.start)
    IN IF ~s.ok THEN s
       ELSE IF s.v.t # "Number"
       THEN Err(s.it, type_error(<<"for start must be a number">>, sp.line, sp.column))
       ELSE LET l == self_eval_expr(s.it, stmt.limit) IN
       IF ~l.ok THEN l
       ELSE IF l.v.t # "Number"
       THEN Err(l.it, type_error(<<"for limit must be a number">>, sp.line, sp.column))
       ELSE LET st == IF stmt.step.k = "None" THEN Ok(l.it, VNumber(1))
                      ELSE self_eval_expr(l.it, stmt.step) IN
       IF ~st.ok THEN st
       ELSE IF st.v.t # "Number"
       THEN Err(st.it, type_error(<<"for step must be a number">>, sp.line, sp.column))
       ELSE IF st.v.n = 0
       THEN Err(st.it, runtime(<<"for step cannot be zero">>, sp.line, sp.column))
       ELSE for_loop([st.it EXCEPT !.env = push_scope(@)], stmt, s.v.n, l.v.n, st.v.n)

\* Stmt::Build after the tick
build(it, stmt) ==
    IF ~contains_key(it.blueprints, stmt.name)
    THEN Err(it, name_error(<<"undefined blueprint", stmt.name>>,
                            stmt.span.line, stmt.span.column))
    ELSE LET bp == it.blueprints[stmt.name]
             a == eval_exprs(it, stmt.args, 1, <<>>)
         IN IF ~a.ok THEN a
            ELSE LET r == call_blueprint(a.it, bp.params, a.v, bp.body, stmt.span) IN
                 IF ~r.ok THEN r ELSE Ok(r.it, VNil)

exec_stmt(it, stmt) ==
    IF stmt.k = "GenericFor"
    THEN Err(it, runtime(<<"generic for not yet implemented">>,
                         stmt.span.line, stmt.span.column))
    ELSE
    LET t == tick(it, stmt.span.line, stmt.span.column) IN
    IF ~t.ok THEN t
    ELSE CASE stmt.k = "LocalDecl" ->
                LET r == IF stmt.init.k = "None" THEN Ok(t.it, VNil)
                         ELSE self_eval_expr(t.it, stmt.init) IN
                IF ~r.ok THEN r
                ELSE Ok([r.it EXCEPT !.env = define(@, stmt.name, r.v)], VNil)
           [] stmt.k = "Assign" ->
                LET r == self_eval_expr(t.it, stmt.value) IN
                IF ~r.ok THEN r ELSE assign_to(r.it, stmt, r.v)
           [] stmt.k = "ExprStmt" ->
                LET r == self_eval_expr(t.it, stmt.expr) IN
                IF ~r.ok THEN r ELSE Ok(r.it, VNil)
           [] stmt.k = "If" ->
                LET c == self_eval_expr(t.it, stmt.condition) IN
                IF ~c.ok THEN c
                ELSE IF is_truthy(c.v) THEN exec_block(c.it, stmt.then_body)
                ELSE elseif_chain(c.it, stmt, 1)
           [] stmt.k = "While" -> while_loop(t.it, stmt)
           [] stmt.k = "NumericFor" -> numeric_for(t.it, stmt)
           [] stmt.k = "RepeatUntil" -> repeat_loop(t.it, stmt)
           [] stmt.k = "Blueprint" ->
                Ok([t.it EXCEPT !.blueprints =
                       insert(@, stmt.name, [params |-> stmt.params, body |-> stmt.body])],
                   VNil)
           [] stmt.k = "Build" -> build(t.it, stmt)
           [] stmt.k = "Return" ->
                LET r == IF stmt.value.k = "None" THEN Ok(t.it, VNil)
                         ELSE self_eval_expr(t.it, stmt.value) IN
                IF ~r.ok THEN r ELSE OkCf(r.it, "Return", r.v)
           [] stmt.k = "Break" -> OkCf(t.it, "Break", VNil)
           [] OTHER -> OkCf(t.it, "Continue", VNil)

self(method, it, node) ==
    IF method = "exec_stmt" THEN exec_stmt(it, node) ELSE eval_expr(it, node)

\* the statement loop of execute, from statement i on
RECURSIVE execute_from(_, _, _)
execute_from(it, program, i) ==
    IF i > Len(program) THEN Ok(it, VNil)
    ELSE LET r == self_exec_stmt(it, program[i]) IN
         IF ~r.ok THEN r
         ELSE IF r.cf = "Return" THEN Ok(r.it, r.v)
         ELSE IF r.cf \in {"Break", "Continue"}
         THEN Err(r.it, runtime(<<"break/continue outside of loop">>, 0, 0))
         ELSE execute_from(r.it, program, i + 1)

\* a faulty execute that keeps the counter of the last run (C4 must reject it)
execute_no_reset(it, program) == execute_from([it EXCEPT !.trace = <<>>], program, 1)

\* execute: reset the counter (and the recorded trace), run the statements
execute(it, program) ==
    execute_from([it EXCEPT !.instruction_count = 0, !.trace = <<>>], program, 1)

----------------------------------------------------------------------------
(* lib.rs : GroveVm and the C ABI                                          *)
(* A source handed to grove_eval is described by what the stages before    *)
(* execute make of it: a null pointer, bytes that are not UTF-8, or text   *)
(* with the result of Lexer::tokenize and, if that is Ok, Parser::parse.   *)

NoneStr == [some |-> FALSE, v |-> <<>>]
SomeStr(sv) == [some |-> TRUE, v |-> sv]

SrcNull == [form |-> "null", lex |-> NoError, parse |-> NoError, program |-> <<>>]
SrcBadUtf8 == [form |-> "bad_utf8", lex |-> NoError, parse |-> NoError, program |-> <<>>]
SrcLexErr(e) == [form |-> "text", lex |-> e, parse |-> NoError, program |-> <<>>]
SrcParseErr(e) == [form |-> "text", lex |-> NoError, parse |-> e, program |-> <<>>]
SrcProgram(stmts) == [form |-> "text", lex |-> NoError, parse |-> NoError, program |-> stmts]

Vm(it, le, line) == [interp |-> it, last_error |-> le, last_error_line |-> line]

\* a faulty error arm that also forgets the blueprints (C28 must reject it)
store_error_forgetting(vm, e) ==
    [vm EXCEPT !.last_error_line = e.line,
               !.last_error = SomeStr(error_display(e)),
               !.interp.blueprints = EmptyMap]

\* the three Err arms of grove_eval: line first, then the formatted message
\* (`e.line as u32` leaves every line below 2^32 as it is)
store_error(vm, e) ==
    [vm EXCEPT !.last_error_line = e.line,
               !.last_error = SomeStr(error_display(e))]

\* the arms of `match vm.interp.execute(&program)` in grove_eval
eval_result(vm, r) ==
    IF r.ok
    THEN [vm |-> [vm EXCEPT !.interp = r.it, !.last_error = NoneStr,
                            !.last_error_line = 0],
          ret |-> 0]
    ELSE [vm |-> store_error([vm EXCEPT !.interp = r.it], r.err), ret |-> -1]

\* grove_eval for a non-null vm: the VM afterwards and the i32 returned
grove_eval(vm, source) ==
    IF source.form = "null" THEN [vm |-> vm, ret |-> -1]
    ELSE IF source.form = "bad_utf8"
    THEN [vm |-> [vm EXCEPT !.last_error = SomeStr(<<"invalid UTF-8 in source">>),
                            !.last_error_line = 0],
          ret |-> -1]
    ELSE IF source.lex # NoError THEN [vm |-> store_error(vm, source.lex), ret |-> -1]
    ELSE IF source.parse # NoError THEN [vm |-> store_error(vm, source.parse), ret |-> -1]
    ELSE eval_result(vm, execute(vm.interp, source.program))

\* a C callback, by what it returns and what it leaves in *result
Callback(ret, result) == [ret |-> ret, result |-> result]

\* grove_register_fn for non-null vm and a UTF-8 name
grove_register_fn(vm, name, callback) ==
    [vm EXCEPT !.interp = register_fn(@, name, HostFn(callback, name))]

\* a faulty setter that also clears the last error (C29 must reject it)
grove_set_global_number_clearing(vm, name, value) ==
    [vm EXCEPT !.interp = set_global(@, name, VNumber(value)),
               !.last_error = NoneStr, !.last_error_line = 0]

grove_set_global_number(vm, name, value) ==
    [vm EXCEPT !.interp = set_global(@, name, VNumber(value))]
grove_set_global_string(vm, name, value) ==
    [vm EXCEPT !.interp = set_global(@, name, VString(value))]
grove_set_global_vec3(vm, name, x, y, z) ==
    [vm EXCEPT !.interp = set_global(@, name, VVec3(x, y, z))]
grove_set_instruction_limit(vm, limit) ==
    [vm EXCEPT !.interp = set_instruction_limit(@, limit)]
grove_last_error(vm) == vm.last_error
grove_last_error_line(vm) == vm.last_error_line

----------------------------------------------------------------------------
(* The VM as a state machine: one action per C-ABI entry point *)

TheVm == Vm(interp, last_error, last_error_line)

\* op.pre is the interpreter a grove_eval started from (its trace dropped)
Op(name, source, arg, ret, pre) ==
    [name |-> name, source |-> source, arg |-> arg, ret |-> ret, pre |-> pre]

SetVm(vm) ==
    /\ interp' = vm.interp
    /\ last_error' = vm.last_error
    /\ last_error_line' = vm.last_error_line

\* grove_new
InitVm ==
    /\ interp = InterpreterNew
    /\ last_error = NoneStr
    /\ last_error_line = 0
    /\ op = Op("grove_new", SrcNull, <<>>, 0, InterpreterNew)

\* grove_eval, run while the limit and the scope depth are within the bounds
GroveEval(source) ==
    /\ interp.instruction_limit <= MaxLimit
    /\ Len(interp.env) <= MaxLeak
    /\ LET r == grove_eval(TheVm, source) IN
       /\ SetVm(r.vm)
       /\ op' = Op("grove_eval", source, <<>>, r.ret, [interp EXCEPT !.trace = <<>>])
    /\ UNCHANGED envvars

\* grove_eval, run while the limit is within a budget chosen by the caller
GroveEvalWithin(source, budget) ==
    /\ interp.instruction_limit <= budget
    /\ Len(interp.env) <= MaxLeak
    /\ LET r == grove_eval(TheVm, source) IN
       /\ SetVm(r.vm)
       /\ op' = Op("grove_eval", source, <<>>, r.ret, [interp EXCEPT !.trace = <<>>])
    /\ UNCHANGED envvars

GroveRegisterFn(name, callback) ==
    /\ SetVm(grove_register_fn(TheVm, name, callback))
    /\ op' = Op("grove_register_fn", SrcNull, <<name>>, 0, InterpreterNew)
    /\ UNCHANGED envvars

GroveSetInstructionLimit(limit) ==
    /\ SetVm(grove_set_instruction_limit(TheVm, limit))
    /\ op' = Op("grove_set_instruction_limit", SrcNull, <<>>, 0, InterpreterNew)
    /\ UNCHANGED envvars

GroveSetGlobalNumber(name, value) ==
    /\ SetVm(grove_set_global_number(TheVm, name, value))
    /\ op' = Op("grove_set_global_number", SrcNull, <<name, value>>, 0, InterpreterNew)
    /\ UNCHANGED envvars

GroveSetGlobalString(name, value) ==
    /\ SetVm(grove_set_global_string(TheVm, name, value))
    /\ op' = Op("grove_set_global_string", SrcNull, <<name, value>>, 0, InterpreterNew)
    /\ UNCHANGED envvars

GroveSetGlobalVec3(name, x, y, z) ==
    /\ SetVm(grove_set_global_vec3(TheVm, name, x, y, z))
    /\ op' = Op("grove_set_global_vec3", SrcNull, <<name, x, y, z>>, 0, InterpreterNew)
    /\ UNCHANGED envvars

\* the readers take *const GroveVm: the VM is left as it is
GroveLastError ==
    /\ op' = Op("grove_last_error", SrcNull, <<>>, grove_last_error(TheVm), InterpreterNew)
    /\ UNCHANGED <<interp, last_error, last_error_line>>
    /\ UNCHANGED envvars

GroveLastErrorLine ==
    /\ op' = Op("grove_last_error_line", SrcNull, <<>>, grove_last_error_line(TheVm),
                InterpreterNew)
    /\ UNCHANGED <<interp, last_error, last_error_line>>
    /\ UNCHANGED envvars

----------------------------------------------------------------------------
(* The Environment driven directly through its own API *)

EnvNames == {"x", "y"}
EnvValues == {VNumber(1), VNumber(2)}

EnvOp(name, key, v, ret, found, before) ==
    [op |-> name, name |-> key, v |-> v, ret |-> ret, found |-> found, before |-> before]

InitEnv ==
    /\ env = EnvNew
    /\ eop = EnvOp("new", "", VNil, None, FALSE, EnvNew)

EnvPushScope ==
    /\ Len(env) < MaxDepth
    /\ env' = push_scope(env)
    /\ eop' = EnvOp("push_scope", "", VNil, None, FALSE, env)
    /\ UNCHANGED vmvars

EnvPopScope ==
    /\ env' = pop_scope(env)
    /\ eop' = EnvOp("pop_scope", "", VNil, None, FALSE, env)
    /\ UNCHANGED vmvars

EnvDefine(name, value) ==
    /\ env' = define(env, name, value)
    /\ eop' = EnvOp("define", name, value, None, FALSE, env)
    /\ UNCHANGED vmvars

EnvSet(name, value) ==
    /\ env' = set(env, name, value).scopes
    /\ eop' = EnvOp("set", name, value, None, set(env, name, value).found, env)
    /\ UNCHANGED vmvars

EnvGet(name) ==
    /\ env' = env
    /\ eop' = EnvOp("get", name, VNil, get(env, name), FALSE, env)
    /\ UNCHANGED vmvars

Init == InitVm /\ InitEnv

NextEnv ==
    \/ EnvPushScope
    \/ EnvPopScope
    \/ \E n \in EnvNames, v \in EnvValues : EnvDefine(n, v)
    \/ \E n \in EnvNames, v \in EnvValues : EnvSet(n, v)
    \/ \E n \in EnvNames : EnvGet(n)

SpecEnv == Init /\ [][NextEnv]_vars

----------------------------------------------------------------------------
(* Sources and host callbacks the VM is driven with *)

\* a callback that succeeds and leaves *result as it was handed in (Nil)
CbNil == Callback(0, GvNil)
\* callbacks that succeed and write a value
CbFalse == Callback(0, GroveValue(1, [bool_val |-> 0]))
CbNumber == Callback(0, GroveValue(2, [number_val |-> 7]))
\* a callback that fails
CbFail == Callback(3, GvNil)

\* while true do
\* end
ProgLoop == <<While(BoolLit(TRUE), <<>>, Sp(1, 1))>>

\* local i = 0
\* while i < 2 do
\*     i = i + 1
\* end
ProgCount ==
    <<LocalDecl("i", NumberLit(0), Sp(1, 1)),
      While(BinaryOp(Ident("i", Sp(2, 7)), "Lt", NumberLit(2), Sp(2, 7)),
            <<Assign(Ident("i", Sp(3, 5)),
                     BinaryOp(Ident("i", Sp(3, 9)), "Add", NumberLit(1), Sp(3, 9)),
                     Sp(3, 5))>>,
            Sp(2, 1))>>

\* local a = 1
\* probe(a)
\* probe(2)
ProgProbe ==
    <<LocalDecl("a", NumberLit(1), Sp(1, 1)),
      ExprStmt(Call(Ident("probe", Sp(2, 1)), <<Ident("a", Sp(2, 7))>>, Sp(2, 6)), Sp(2, 1)),
      ExprStmt(Call(Ident("probe", Sp(3, 1)), <<NumberLit(2)>>, Sp(3, 6)), Sp(3, 1))>>

\* probe(nope)
ProgNameErr ==
    <<ExprStmt(Call(Ident("probe", Sp(1, 1)), <<Ident("nope", Sp(1, 7))>>, Sp(1, 6)), Sp(1, 1))>>

\* break
ProgBreak == <<Break(Sp(1, 1))>>

\* local s = "abc      (the string is not closed, on line 2)
SrcUnterminated == SrcLexErr(syntax(<<"unterminated string">>, 2, 11))
\* local x = 10 +
SrcDangling == SrcParseErr(syntax(<<"unexpected token Eof">>, 1, 15))

SourcesFfi ==
    {SrcNull, SrcBadUtf8, SrcUnterminated, SrcDangling,
     SrcProgram(ProgLoop), SrcProgram(ProgCount), SrcProgram(ProgProbe),
     SrcProgram(ProgNameErr), SrcProgram(ProgBreak)}

Limits == 0..MaxLimit

Next ==
    \/ \E src \in SourcesFfi : GroveEval(src)
    \/ GroveRegisterFn("probe", CbNil)
    \/ \E l \in Limits : GroveSetInstructionLimit(l)

Spec == Init /\ [][Next]_vars

----------------------------------------------------------------------------
(* Scopes across evals: loops, blocks and blueprint calls that end          *)
(* normally, with an error, or with a stray break / continue                *)

\* for i = 1, 2 do
\*     nope()
\* end
ProgForErr ==
    <<NumericFor("i", NumberLit(1), NumberLit(2), NoExpr,
                 <<ExprStmt(Call(Ident("nope", Sp(2, 5)), <<>>, Sp(2, 9)), Sp(2, 5))>>,
                 Sp(1, 1))>>

\* for i = 1, 2 do
\*     local t = i
\* end
ProgForOk ==
    <<NumericFor("i", NumberLit(1), NumberLit(2), NoExpr,
                 <<LocalDecl("t", Ident("i", Sp(2, 15)), Sp(2, 5))>>,
                 Sp(1, 1))>>

\* probe(i)
ProgSeeI ==
    <<ExprStmt(Call(Ident("probe", Sp(1, 1)), <<Ident("i", Sp(1, 7))>>, Sp(1, 6)), Sp(1, 1))>>

\* local x = 1
\* if true then
\*     local x = 2
\*     local y = 3
\* end
ProgShadow ==
    <<LocalDecl("x", NumberLit(1), Sp(1, 1)),
      If(BoolLit(TRUE),
         <<LocalDecl("x", NumberLit(2), Sp(3, 5)), LocalDecl("y", NumberLit(3), Sp(4, 5))>>,
         <<>>, NoBody, Sp(2, 1))>>

\* blueprint b(p)
\*     nope()
\* end
\* build b(1)
ProgBpErr ==
    <<Blueprint("b", <<"p">>,
                <<ExprStmt(Call(Ident("nope", Sp(2, 5)), <<>>, Sp(2, 9)), Sp(2, 5))>>,
                Sp(1, 1)),
      Build("b", <<NumberLit(1)>>, Sp(4, 1))>>

\* continue
ProgContinue == <<Continue(Sp(1, 1))>>

\* if true then
\*     break
\* end
ProgIfBreak == <<If(BoolLit(TRUE), <<Break(Sp(2, 5))>>, <<>>, NoBody, Sp(1, 1))>>

\* if false then
\* else
\*     continue
\* end
ProgIfContinue ==
    <<If(BoolLit(FALSE), <<>>, <<>>, SomeBody(<<Continue(Sp(3, 5))>>), Sp(1, 1))>>

\* blueprint k()
\*     break
\* end
\* build k()
ProgBpBreak ==
    <<Blueprint("k", <<>>, <<Break(Sp(2, 5))>>, Sp(1, 1)),
      Build("k", <<>>, Sp(4, 1))>>

\* blueprint c()
\*     continue
\* end
\* local r = c()
ProgBpContinue ==
    <<Blueprint("c", <<>>, <<Continue(Sp(2, 5))>>, Sp(1, 1)),
      LocalDecl("r", Call(Ident("c", Sp(4, 11)), <<>>, Sp(4, 12)), Sp(4, 1))>>

\* blueprint w()
\*     while true do
\*         break
\*     end
\* end
\* build w()
ProgBpLoopBreak ==
    <<Blueprint("w", <<>>,
                <<While(BoolLit(TRUE), <<Break(Sp(3, 9))>>, Sp(2, 5))>>,
                Sp(1, 1)),
      Build("w", <<>>, Sp(6, 1))>>

\* the programs whose break / continue is outside every loop
StrayTopLevel == {ProgBreak, ProgContinue}
StrayInIf == {ProgIfBreak, ProgIfContinue}
StrayInBlueprint == {ProgBpBreak, ProgBpContinue}

SourcesScope ==
    {SrcProgram(p) : p \in {ProgForErr, ProgForOk, ProgSeeI, ProgShadow, ProgBpErr}}

LimitsScope == {2, MaxLimit}

NextScope ==
    \/ \E src \in SourcesScope : GroveEval(src)
    \/ GroveRegisterFn("probe", CbNil)
    \/ \E l \in LimitsScope : GroveSetInstructionLimit(l)

SpecScope == Init /\ [][NextScope]_vars

SourcesBreak ==
    {SrcProgram(p) : p \in {ProgBpLoopBreak}
                           \cup StrayTopLevel \cup StrayInIf \cup StrayInBlueprint}

LimitsBreak == {3, MaxLimit}

NextBreak ==
    \/ \E src \in SourcesBreak : GroveEval(src)
    \/ \E l \in LimitsBreak : GroveSetInstructionLimit(l)

SpecBreak == Init /\ [][NextBreak]_vars

----------------------------------------------------------------------------
(* Calls and short-circuit operators: host functions pa, pb, f and vec3,    *)
(* blueprints f and vec3                                                    *)

\* local r = <left> and pb(1)        local r = <left> or pb(1)
ScProg(bop, left) ==
    <<LocalDecl("r",
                BinaryOp(left, bop,
                         Call(Ident("pb", Sp(1, 20)), <<NumberLit(1)>>, Sp(1, 22)),
                         Sp(1, 11)),
                Sp(1, 1))>>

\* the left operands: nil, false, true, 0, "", pa()
Lefts ==
    {NilLit, BoolLit(FALSE), BoolLit(TRUE), NumberLit(0), StringLit(""),
     Call(Ident("pa", Sp(1, 11)), <<>>, Sp(1, 13))}

ScOps == {"And", "Or"}

SourcesAndOr == {SrcProgram(ScProg(bop, left)) : bop \in ScOps, left \in Lefts}

RegistrationsAndOr ==
    {<<"pa", CbFalse>>, <<"pa", CbNumber>>, <<"pa", CbFail>>, <<"pb", CbNumber>>}

NextAndOr ==
    \/ \E src \in SourcesAndOr : GroveEval(src)
    \/ \E reg \in RegistrationsAndOr : GroveRegisterFn(reg[1], reg[2])
    \/ GroveSetInstructionLimit(MaxLimit)

SpecAndOr == Init /\ [][NextAndOr]_vars

\* blueprint <name>(a)
\*     return 5
\* end
ProgDef(name) ==
    <<Blueprint(name, <<"a">>, <<Return(NumberLit(5), Sp(2, 5))>>, Sp(1, 1))>>

\* the line of the one statement of the blueprint bodies above
BodyLine == ProgDef("f")[1].body[1].span.line

\* local r = <name>(1, 2, 3)
ProgCall(name) ==
    <<LocalDecl("r",
                Call(Ident(name, Sp(1, 11)),
                     <<NumberLit(1), NumberLit(2), NumberLit(3)>>, Sp(1, 12)),
                Sp(1, 1))>>

\* local r = f(1)(2)
ProgCallExpr ==
    <<LocalDecl("r",
                Call(Call(Ident("f", Sp(1, 11)), <<NumberLit(1)>>, Sp(1, 12)),
                     <<NumberLit(2)>>, Sp(1, 15)),
                Sp(1, 1))>>

Callees == {"f", "vec3", "g"}

SourcesCall ==
    {SrcProgram(ProgDef(n)) : n \in {"f", "vec3"}}
    \cup {SrcProgram(ProgCall(n)) : n \in Callees}
    \cup {SrcProgram(ProgCallExpr)}

NextCall ==
    \/ \E src \in SourcesCall : GroveEval(src)
    \/ \E n \in {"f", "vec3"} : GroveRegisterFn(n, CbNumber)
    \/ GroveSetInstructionLimit(MaxLimit)

SpecCall == Init /\ [][NextCall]_vars

----------------------------------------------------------------------------
(* Observations used by the properties *)

TickCount(trace) == Cardinality({i \in DOMAIN trace : trace[i].e = "tick"})
HostCalls(trace, name) ==
    Cardinality({i \in DOMAIN trace : trace[i].e = "host" /\ trace[i].name = name})
TicksAtLine(trace, line) ==
    Cardinality({i \in DOMAIN trace : trace[i].e = "tick" /\ trace[i].line = line})

\* the ErrorKind written into a stored "[line L:C] Kind: message"
ErrKind(le) == IF le.some /\ Len(le.v) >= 4 THEN le.v[4] ELSE ""

\* the call reached vm.interp.execute
Executed(o) ==
    /\ o.name = "grove_eval"
    /\ o.source.form = "text"
    /\ o.source.lex = NoError
    /\ o.source.parse = NoError

\* a budget no run of the model is cut by unless it never ends
RefLimit == MaxLimit + 1

----------------------------------------------------------------------------
(* C1: within one grove_eval the run is aborted with InstructionLimit       *)
(* exactly at the first tick that takes the counter above the limit: a run  *)
(* needing at most `limit` ticks is not aborted and does what the uncut run *)
(* does, a run needing more fails, the counter never passes limit + 1, and  *)
(* the aborting tick is the last thing the run does (its trace is the uncut *)
(* run's trace up to and including that tick).                              *)
C1_AbortExactlyAboveLimit ==
    Executed(op) =>
        LET limit == op.pre.instruction_limit
            ref == execute(set_instruction_limit(op.pre, RefLimit), op.source.program)
            needs == TickCount(ref.it.trace)
            tr == interp.trace
            aborted == ErrKind(last_error) = "InstructionLimit"
        IN /\ interp.instruction_count <= limit + 1
           /\ aborted <=> needs > limit
           /\ needs <= limit =>
                /\ tr = ref.it.trace
                /\ interp.env = ref.it.env
                /\ (op.ret = 0) <=> ref.ok
           /\ needs > limit =>
                /\ op.ret = -1
                /\ interp.instruction_count = limit + 1
                /\ TickCount(tr) = limit + 1
                /\ tr = SubSeq(ref.it.trace, 1, Len(tr))
                /\ tr[Len(tr)].e = "tick"
                /\ tr[Len(tr)].c = limit + 1
                /\ last_error_line = tr[Len(tr)].line

\* an aborted run that had already called a host function
C1_witness ==
    /\ Executed(op)
    /\ ErrKind(last_error) = "InstructionLimit"
    /\ interp.instruction_count = interp.instruction_limit + 1
    /\ HostCalls(interp.trace, "probe") = 1
    /\ interp.trace[Len(interp.trace)].e = "tick"

----------------------------------------------------------------------------
(* C2: after every grove_eval, whether it succeeded or failed, the          *)
(* environment is the single global scope again, so a later eval cannot     *)
(* read a loop variable an earlier eval left behind, and an outer binding   *)
(* shadowed inside a block keeps its value while the block's own names are  *)
(* gone.                                                                    *)
C2_ScopesClosedAfterEval ==
    op.name = "grove_eval" =>
        /\ Len(interp.env) = 1
        /\ (op.source = SrcProgram(ProgSeeI) /\ op.ret = 0) =>
              contains_key(op.pre.env[1], "i")
        /\ (op.source = SrcProgram(ProgShadow) /\ op.ret = 0) =>
              /\ get(interp.env, "x") = Some(VNumber(1))
              /\ ~get(interp.env, "y").some

----------------------------------------------------------------------------
(* C3: after every grove_eval on a valid VM the return value and the        *)
(* last-error slot agree: 0 exactly when the slot is empty (no message,     *)
(* line 0), -1 exactly when the slot holds the message and line of this     *)
(* call's failure.                                                          *)
C3_ReturnAgreesWithSlot ==
    op.name = "grove_eval" =>
        /\ op.ret \in {0, -1}
        /\ (op.ret = 0) <=> (~grove_last_error(TheVm).some /\ grove_last_error_line(TheVm) = 0)
        /\ op.ret = -1 =>
             /\ last_error.some
             /\ op.source.form = "bad_utf8" =>
                    last_error.v = <<"invalid UTF-8 in source">> /\ last_error_line = 0
             /\ (op.source.form = "text" /\ op.source.lex # NoError) =>
                    last_error.v = error_display(op.source.lex)
                    /\ last_error_line = op.source.lex.line
             /\ (op.source.form = "text" /\ op.source.parse # NoError) =>
                    last_error.v = error_display(op.source.parse)
                    /\ last_error_line = op.source.parse.line
             /\ Executed(op) =>
                    ErrKind(last_error) \in {"Runtime", "Type", "NameError", "InstructionLimit"}
                    /\ last_error.v[2] = ToString(last_error_line)

----------------------------------------------------------------------------
(* C4: the instruction counter is reset at the start of every execute, so   *)
(* the budget is per eval: whatever the counter was left at, the counter    *)
(* after a run counts that run's ticks only, and a program that needs at    *)
(* most `limit` ticks is not aborted with InstructionLimit.                 *)
C4_BudgetIsPerEval ==
    Executed(op) =>
        LET limit == op.pre.instruction_limit
            fresh == execute([op.pre EXCEPT !.instruction_count = 0,
                                            !.instruction_limit = RefLimit],
                             op.source.program)
            needs == TickCount(fresh.it.trace)
        IN /\ interp.instruction_count = TickCount(interp.trace)
           /\ needs <= limit => ErrKind(last_error) # "InstructionLimit"

\* a run that spent its whole budget and succeeded, right after an aborted run
C4_witness ==
    /\ Executed(op)
    /\ op.ret = 0
    /\ op.pre.instruction_count = interp.instruction_limit + 1
    /\ interp.instruction_count = interp.instruction_limit
    /\ interp.instruction_limit > 0

----------------------------------------------------------------------------
(* C5: a break or continue outside every loop is a Runtime error that       *)
(* aborts the eval, at the top level, inside a top-level if and inside a    *)
(* blueprint body (a run cut by the instruction limit before it gets there  *)
(* aside).                                                                  *)
C5_StrayBreakIsRuntimeError ==
    ( /\ Executed(op)
      /\ op.source.program \in StrayTopLevel \cup StrayInIf \cup StrayInBlueprint
      /\ ErrKind(last_error) # "InstructionLimit" )
        => (op.ret = -1 /\ ErrKind(last_error) = "Runtime")

----------------------------------------------------------------------------
(* C6: in `a and b` the right operand is evaluated exactly when a is        *)
(* truthy, in `a or b` exactly when a is falsy (nil or false): a host       *)
(* function called only in b is invoked once or not at all accordingly,     *)
(* and the result is the deciding operand's own value.                      *)
C6_ShortCircuit ==
    \A bop \in ScOps, left \in Lefts :
        (Executed(op) /\ op.source.program = ScProg(bop, left)) =>
            LET l == eval_expr([op.pre EXCEPT !.instruction_count = 1], left)
                registered == contains_key(op.pre.host_fns, "pb")
                calls == HostCalls(interp.trace, "pb")
                right_runs == /\ l.ok
                              /\ IF bop = "And" THEN is_truthy(l.v) ELSE ~is_truthy(l.v)
                r == get(interp.env, "r")
            IN /\ calls = IF right_runs /\ registered THEN 1 ELSE 0
               /\ ~l.ok => (op.ret = -1 /\ r = get(op.pre.env, "r"))
               /\ (l.ok /\ ~right_runs) => (op.ret = 0 /\ r = Some(l.v))
               /\ (right_runs /\ registered) =>
                     /\ op.ret = 0
                     /\ r = Some(grove_value_to_value(op.pre.host_fns["pb"].callback.result))
                     /\ interp.trace[Len(interp.trace)].name = "pb"
                     /\ interp.trace[Len(interp.trace)].args = <<value_to_grove_value(VNumber(1))>>
               /\ (right_runs /\ ~registered) =>
                     (op.ret = -1 /\ ErrKind(last_error) = "NameError"
                        /\ r = get(op.pre.env, "r"))

\* `pa() and pb(1)` where pa returned false: pa ran, pb did not, r is false
C6_witness ==
    /\ Executed(op)
    /\ op.ret = 0
    /\ op.source.program = ScProg("And", Call(Ident("pa", Sp(1, 11)), <<>>, Sp(1, 13)))
    /\ contains_key(interp.host_fns, "pb")
    /\ HostCalls(interp.trace, "pa") = 1
    /\ HostCalls(interp.trace, "pb") = 0
    /\ get(interp.env, "r") = Some(VBool(FALSE))

----------------------------------------------------------------------------
(* C7: after any sequence of push_scope, pop_scope, define, set and get at  *)
(* least the global scope remains: pop_scope at depth 1 changes nothing,    *)
(* and at a greater depth it removes exactly the innermost scope.           *)
C7_GlobalScopeRemains ==
    /\ Len(env) >= 1
    /\ eop.op = "pop_scope" =>
         IF Len(eop.before) = 1
         THEN env = eop.before
         ELSE /\ Len(env) = Len(eop.before) - 1
              /\ \A i \in 1..Len(env) : env[i] = eop.before[i]

\* pop_scope was called at depth 1 on a global scope that holds bindings
C7_witness ==
    /\ eop.op = "pop_scope"
    /\ Len(eop.before) = 1
    /\ DOMAIN env[1] = EnvNames

----------------------------------------------------------------------------
(* C8: define writes the innermost scope only: no outer scope changes, and  *)
(* inside the scope get returns the defined value; from every environment,  *)
(* push_scope, define(x, v), pop_scope gives back the value x had before    *)
(* the push (None when x was not bound).                                    *)
C8_DefineShadowsOnly ==
    /\ eop.op = "define" =>
         /\ Len(env) = Len(eop.before)
         /\ \A i \in 1..(Len(env) - 1) : env[i] = eop.before[i]
         /\ DOMAIN env[Len(env)] = DOMAIN eop.before[Len(env)] \cup {eop.name}
         /\ \A n \in DOMAIN eop.before[Len(env)] \ {eop.name} :
                env[Len(env)][n] = eop.before[Len(env)][n]
         /\ get(env, eop.name) = Some(eop.v)
         /\ \A n \in EnvNames \ {eop.name} : get(env, n) = get(eop.before, n)
    /\ \A n \in EnvNames, v \in EnvValues :
         LET inner == define(push_scope(env), n, v)
             after == pop_scope(inner)
         IN /\ get(inner, n) = Some(v)
            /\ get(after, n) = get(env, n)
            /\ after = env

\* define in an inner scope of a name an outer scope binds to another value
C8_witness ==
    /\ eop.op = "define"
    /\ Len(env) > 1
    /\ contains_key(env[1], eop.name)
    /\ env[1][eop.name] # eop.v
    /\ get(env, eop.name) = Some(eop.v)

----------------------------------------------------------------------------
(* C9: set(name, v) overwrites the binding in the innermost scope that      *)
(* contains name, changes nothing else and returns true; when no scope      *)
(* contains name it returns false and changes nothing; an assignment        *)
(* statement to an identifier no scope contains fails with NameError.       *)
C9_SetWritesInnermostHolder ==
    /\ eop.op = "set" =>
         LET b == eop.before
             bound == \E i \in 1..Len(b) : eop.name \in DOMAIN b[i]
         IN /\ eop.found <=> bound
            /\ ~bound => env = b
            /\ bound =>
                 /\ Len(env) = Len(b)
                 /\ \E i \in 1..Len(b) :
                      /\ eop.name \in DOMAIN b[i]
                      /\ \A j \in (i + 1)..Len(b) : eop.name \notin DOMAIN b[j]
                      /\ DOMAIN env[i] = DOMAIN b[i]
                      /\ env[i][eop.name] = eop.v
                      /\ \A n \in DOMAIN b[i] \ {eop.name} : env[i][n] = b[i][n]
                      /\ \A j \in 1..Len(b) : j # i => env[j] = b[j]
    /\ \A n \in EnvNames, v \in EnvValues :
         LET it == [InterpreterNew EXCEPT !.env = env]
             r == exec_stmt(it, Assign(Ident(n, Sp(1, 1)), NumberLit(v.n), Sp(1, 1)))
         IN IF get(env, n).some
            THEN r.ok /\ r.it.env = set(env, n, v).scopes
                      /\ get(r.it.env, n) = Some(v)
            ELSE ~r.ok /\ r.err.kind = "NameError" /\ r.it.env = env

\* set of a name two scopes hold, to a value neither holds
C9_witness ==
    /\ eop.op = "set"
    /\ eop.found
    /\ Len(eop.before) = 2
    /\ \A i \in 1..2 : contains_key(eop.before[i], eop.name) /\ eop.before[i][eop.name] # eop.v
    /\ env[1] = eop.before[1]
    /\ env[2][eop.name] = eop.v

----------------------------------------------------------------------------
(* C10: a call expression resolves its callee as the built-in vec3, then a  *)
(* registered host function, then a blueprint: a name registered as both    *)
(* runs the host function and not the blueprint body, a host function or    *)
(* blueprint named vec3 is not invoked, and a callee found in none of the   *)
(* three, or one that is not an identifier, raises NameError.               *)
C10_CallResolutionOrder ==
    /\ \A n \in Callees :
         (Executed(op) /\ op.source.program = ProgCall(n)) =>
            LET host == contains_key(op.pre.host_fns, n)
                bp == contains_key(op.pre.blueprints, n)
                host_calls == HostCalls(interp.trace, n)
                body_ticks == TicksAtLine(interp.trace, BodyLine)
                r == get(interp.env, "r")
            IN CASE n = "vec3" ->
                      /\ op.ret = 0 /\ r = Some(VVec3(1, 2, 3))
                      /\ host_calls = 0 /\ body_ticks = 0
                 [] n # "vec3" /\ host ->
                      /\ op.ret = 0
                      /\ r = Some(grove_value_to_value(op.pre.host_fns[n].callback.result))
                      /\ host_calls = 1 /\ body_ticks = 0
                 [] n # "vec3" /\ ~host /\ bp ->
                      /\ op.ret = 0 /\ r = Some(VNumber(5))
                      /\ host_calls = 0 /\ body_ticks = 1
                 [] OTHER ->
                      /\ op.ret = -1 /\ ErrKind(last_error) = "NameError"
                      /\ host_calls = 0 /\ body_ticks = 0
    /\ (Executed(op) /\ op.source.program = ProgCallExpr) =>
            /\ op.ret = -1 /\ ErrKind(last_error) = "NameError"
            /\ TickCount(interp.trace) = Len(interp.trace)
            /\ TicksAtLine(interp.trace, BodyLine) = 0

\* f is both a host function and a blueprint: the call ran the host function
C10_witness ==
    /\ Executed(op)
    /\ op.source.program = ProgCall("f")
    /\ contains_key(op.pre.host_fns, "f")
    /\ contains_key(op.pre.blueprints, "f")
    /\ HostCalls(interp.trace, "f") = 1
    /\ TicksAtLine(interp.trace, BodyLine) = 0

----------------------------------------------------------------------------
(* Build statements: host functions probe and bad, blueprints b and nope    *)

\* blueprint <name>(p, q)
\* end
ProgBuildDef(name) == <<Blueprint(name, <<"p", "q">>, <<>>, Sp(1, 1))>>

\* build <name>(probe(1), probe(2))
ProgBuildProbe(name) ==
    <<Build(name,
            <<Call(Ident("probe", Sp(1, 12)), <<NumberLit(1)>>, Sp(1, 17)),
              Call(Ident("probe", Sp(1, 22)), <<NumberLit(2)>>, Sp(1, 27))>>,
            Sp(1, 1))>>

\* build <name>(probe(1), bad())
ProgBuildBad(name) ==
    <<Build(name,
            <<Call(Ident("probe", Sp(1, 12)), <<NumberLit(1)>>, Sp(1, 17)),
              Call(Ident("bad", Sp(1, 22)), <<>>, Sp(1, 25))>>,
            Sp(1, 1))>>

BuildNames == {"b", "nope"}

SourcesBuild ==
    {SrcProgram(ProgBuildDef("b"))}
    \cup {SrcProgram(ProgBuildProbe(n)) : n \in BuildNames}
    \cup {SrcProgram(ProgBuildBad(n)) : n \in BuildNames}

RegistrationsBuild == {<<"probe", CbNil>>, <<"probe", CbNumber>>, <<"bad", CbFail>>}

LimitsBuild == {1, MaxLimit}

NextBuild ==
    \/ \E src \in SourcesBuild : GroveEval(src)
    \/ \E reg \in RegistrationsBuild : GroveRegisterFn(reg[1], reg[2])
    \/ \E l \in LimitsBuild : GroveSetInstructionLimit(l)

SpecBuild == Init /\ [][NextBuild]_vars

\* the host calls of a trace, in order, as <<name, first argument>> pairs
HostCallSeq(trace) ==
    LET idx == {i \in DOMAIN trace : trace[i].e = "host"}
        RECURSIVE upto(_)
        upto(n) == IF n = 0 THEN <<>>
                   ELSE IF n \in idx
                        THEN Append(upto(n - 1), <<trace[n].name, trace[n].args>>)
                        ELSE upto(n - 1)
    IN upto(Len(trace))

\* both host functions are registered and the budget admits the statement
BuildReady(o) ==
    /\ Executed(o)
    /\ contains_key(o.pre.host_fns, "probe")
    /\ contains_key(o.pre.host_fns, "bad")
    /\ o.pre.instruction_limit >= 1

----------------------------------------------------------------------------
(* C11: the arguments of `build name(args)` are evaluated, left to right,   *)
(* before the blueprint is looked up: with `name` not a defined blueprint   *)
(* the host calls of the arguments have been made when NameError is raised, *)
(* and an error raised by an argument is reported instead of the NameError. *)
C11_BuildArgsBeforeLookup ==
    \A n \in BuildNames :
       (BuildReady(op) /\ ~contains_key(op.pre.blueprints, n)) =>
          /\ op.source.program = ProgBuildProbe(n) =>
                /\ op.ret = -1
                /\ ErrKind(last_error) = "NameError"
                /\ HostCallSeq(interp.trace) =
                      <<<<"probe", <<value_to_grove_value(VNumber(1))>>>>,
                        <<"probe", <<value_to_grove_value(VNumber(2))>>>>>>
          /\ op.source.program = ProgBuildBad(n) =>
                /\ op.ret = -1
                /\ ErrKind(last_error) = "Runtime"
                /\ HostCalls(interp.trace, "probe") = 1
                /\ HostCalls(interp.trace, "bad") = 1

----------------------------------------------------------------------------
(* Stringifying values: host function probe, tables and arrays under `..`   *)

\* local s = "" .. {a = 1, b = 2}
\* probe(s)
ProgShowTable ==
    <<LocalDecl("s",
                BinaryOp(StringLit(""), "Concat",
                         TableLit(<<<<"a", NumberLit(1)>>, <<"b", NumberLit(2)>>>>),
                         Sp(1, 11)),
                Sp(1, 1)),
      ExprStmt(Call(Ident("probe", Sp(2, 1)), <<Ident("s", Sp(2, 7))>>, Sp(2, 6)), Sp(2, 1))>>

\* local s = "" .. {a = 1}
\* probe(s)
ProgShowOne ==
    <<LocalDecl("s",
                BinaryOp(StringLit(""), "Concat", TableLit(<<<<"a", NumberLit(1)>>>>),
                         Sp(1, 11)),
                Sp(1, 1)),
      ExprStmt(Call(Ident("probe", Sp(2, 1)), <<Ident("s", Sp(2, 7))>>, Sp(2, 6)), Sp(2, 1))>>

\* local s = "" .. [1, 2]
\* probe(s)
ProgShowArray ==
    <<LocalDecl("s",
                BinaryOp(StringLit(""), "Concat", ArrayLit(<<NumberLit(1), NumberLit(2)>>),
                         Sp(1, 11)),
                Sp(1, 1)),
      ExprStmt(Call(Ident("probe", Sp(2, 1)), <<Ident("s", Sp(2, 7))>>, Sp(2, 6)), Sp(2, 1))>>

\* probe({a = 1, b = 2})
ProgPassTable ==
    <<ExprStmt(Call(Ident("probe", Sp(1, 1)),
                    <<TableLit(<<<<"a", NumberLit(1)>>, <<"b", NumberLit(2)>>>>)>>,
                    Sp(1, 6)),
               Sp(1, 1))>>

SourcesShow ==
    {SrcProgram(p) : p \in {ProgShowTable, ProgShowOne, ProgShowArray, ProgPassTable}}

\* the iteration orders the hasher keys can give to the keys a and b
HashOrders == {<<"a", "b">>, <<"b", "a">>}

LimitsShow == {1, 2, MaxLimit}

\* grove_eval in a process whose hasher keys give the tables the order `ord`
GroveEvalHashed(source, ord) ==
    /\ interp.instruction_limit <= MaxLimit
    /\ Len(interp.env) <= MaxLeak
    /\ LET r == grove_eval([TheVm EXCEPT !.interp.hash_order = ord], source) IN
       /\ SetVm(r.vm)
       /\ op' = Op("grove_eval", source, <<>>, r.ret, [interp EXCEPT !.trace = <<>>])
    /\ UNCHANGED envvars

NextShow ==
    \/ \E src \in SourcesShow, ord \in HashOrders : GroveEvalHashed(src, ord)
    \/ \E cb \in {CbNil, CbNumber, CbFail} : GroveRegisterFn("probe", cb)
    \/ \E l \in LimitsShow : GroveSetInstructionLimit(l)

SpecShow == Init /\ [][NextShow]_vars

\* the VM state a host can observe: everything but the hasher's order
Observable(it) == [it EXCEPT !.hash_order = <<>>]

----------------------------------------------------------------------------
(* C12: two runs of the same source from identical VM states, with          *)
(* deterministic host functions, make the same host calls with the same     *)
(* arguments, return the same result or error and end in the same VM state, *)
(* also when the program stringifies a table with `..`.                     *)
C12_EvalIsDeterministic ==
    Executed(op) =>
       \A ord \in HashOrders :
          LET r == grove_eval(Vm([op.pre EXCEPT !.hash_order = ord], NoneStr, 0),
                              op.source)
          IN /\ r.ret = op.ret
             /\ r.vm.last_error = last_error
             /\ r.vm.last_error_line = last_error_line
             /\ Observable(r.vm.interp) = Observable(interp)

----------------------------------------------------------------------------
(* Array indexing: reads and writes of arr = [10, 20, 30] at -2 .. 4        *)

\* the literal n, written -m for a negative n
NumExpr(n) == IF n < 0 THEN UnaryOp("Neg", NumberLit(-n), Sp(2, 15)) ELSE NumberLit(n)

ArrElems == <<VNumber(10), VNumber(20), VNumber(30)>>

\* local arr = [10, 20, 30]
DeclArr ==
    LocalDecl("arr", ArrayLit(<<NumberLit(10), NumberLit(20), NumberLit(30)>>), Sp(1, 1))

\* local arr = [10, 20, 30]
\* local r = arr[<n>]
ProgRead(n) ==
    <<DeclArr,
      LocalDecl("r", IndexAccess(Ident("arr", Sp(2, 11)), NumExpr(n), Sp(2, 14)), Sp(2, 1))>>

\* local arr = [10, 20, 30]
\* arr[<n>] = 99
ProgWrite(n) ==
    <<DeclArr,
      Assign(IndexAccess(Ident("arr", Sp(2, 1)), NumExpr(n), Sp(2, 4)), NumberLit(99),
             Sp(2, 1))>>

Indexes == -2..4

SourcesIndex ==
    {SrcProgram(ProgRead(n)) : n \in Indexes} \cup {SrcProgram(ProgWrite(n)) : n \in Indexes}

LimitsIndex == {1, MaxLimit}

NextIndex ==
    \/ \E src \in SourcesIndex : GroveEval(src)
    \/ \E l \in LimitsIndex : GroveSetInstructionLimit(l)

SpecIndex == Init /\ [][NextIndex]_vars

\* the budget admits both statements of the programs above
IndexReady(o) == Executed(o) /\ o.pre.instruction_limit >= 2

----------------------------------------------------------------------------
(* C13: reading arr[n] with arr an Array and n a Number gives element n     *)
(* when 0 <= n < length and Nil for every index outside that range,         *)
(* negative as well as >= length; it never errors and never gives the       *)
(* element of another position.                                             *)
C13_IndexReadInRangeOrNil ==
    \A n \in Indexes :
       (IndexReady(op) /\ op.source.program = ProgRead(n)) =>
          /\ op.ret = 0
          /\ get(interp.env, "r") =
                Some(IF 0 <= n /\ n < Len(ArrElems) THEN ArrElems[n + 1] ELSE VNil)

----------------------------------------------------------------------------
(* C14: arr[n] = v replaces exactly element n when 0 <= n < length, and     *)
(* for every other n, negative or >= length, fails with a Runtime           *)
(* out-of-bounds error and leaves the array unchanged.                      *)
C14_IndexWriteInRangeOrError ==
    \A n \in Indexes :
       (IndexReady(op) /\ op.source.program = ProgWrite(n)) =>
          IF 0 <= n /\ n < Len(ArrElems)
          THEN /\ op.ret = 0
               /\ get(interp.env, "arr") =
                     Some(VArray([ArrElems EXCEPT ![n + 1] = VNumber(99)]))
          ELSE /\ op.ret = -1
               /\ ErrKind(last_error) = "Runtime"
               /\ get(interp.env, "arr") = Some(VArray(ArrElems))

----------------------------------------------------------------------------
(* Field access: e.f for e of every literal kind and f in x, y, z, w        *)

\* the object expressions, by the kind of value they yield
FieldObject(kind) ==
    CASE kind = "vec3" ->
            Call(Ident("vec3", Sp(1, 11)), <<NumberLit(1), NumberLit(2), NumberLit(3)>>,
                 Sp(1, 15))
      [] kind = "table" -> TableLit(<<<<"x", NumberLit(5)>>>>)
      [] kind = "array" -> ArrayLit(<<NumberLit(5)>>)
      [] kind = "number" -> NumberLit(5)
      [] kind = "string" -> StringLit("a")
      [] kind = "bool" -> BoolLit(TRUE)
      [] OTHER -> NilLit

FieldKinds == {"vec3", "table", "array", "number", "string", "bool", "nil"}
FieldNames == {"x", "y", "z", "w"}

\* local r = <object>.<field>
ProgField(kind, field) ==
    <<LocalDecl("r", FieldAccess(FieldObject(kind), field, Sp(1, 25)), Sp(1, 1))>>

SourcesField == {SrcProgram(ProgField(k, f)) : k \in FieldKinds, f \in FieldNames}

LimitsField == {0, MaxLimit}

NextField ==
    \/ \E src \in SourcesField : GroveEval(src)
    \/ \E l \in LimitsField : GroveSetInstructionLimit(l)

SpecField == Init /\ [][NextField]_vars

----------------------------------------------------------------------------
(* C15: e.f on a Vec3 with f in x, y, z gives that component; on a Table    *)
(* it gives the value mapped to f, or Nil when the key is absent; in every  *)
(* other case (any other kind of value, and a Vec3 with any other field     *)
(* name) it raises an error of kind Type.                                   *)
C15_FieldAccessTypeOnly ==
    \A k \in FieldKinds, f \in FieldNames :
       (Executed(op) /\ op.pre.instruction_limit >= 1
           /\ op.source.program = ProgField(k, f)) =>
          LET r == get(interp.env, "r") IN
          CASE k = "vec3" /\ f \in {"x", "y", "z"} ->
                  /\ op.ret = 0
                  /\ r = Some(VNumber(CASE f = "x" -> 1 [] f = "y" -> 2 [] OTHER -> 3))
            [] k = "table" ->
                  /\ op.ret = 0
                  /\ r = Some(IF f = "x" THEN VNumber(5) ELSE VNil)
            [] OTHER ->
                  /\ op.ret = -1
                  /\ ErrKind(last_error) = "Type"

\* C15 as the code has it: a Vec3 with a field other than x, y, z raises an
\* error of kind Runtime ("vec3 has no field"); a value that is neither a
\* Vec3 nor a Table raises an error of kind Type; Vec3 components and Table
\* lookups are as stated.
C15_FieldAccess ==
    \A k \in FieldKinds, f \in FieldNames :
       (Executed(op) /\ op.pre.instruction_limit >= 1
           /\ op.source.program = ProgField(k, f)) =>
          LET r == get(interp.env, "r") IN
          CASE k = "vec3" /\ f \in {"x", "y", "z"} ->
                  /\ op.ret = 0
                  /\ r = Some(VNumber(CASE f = "x" -> 1 [] f = "y" -> 2 [] OTHER -> 3))
            [] k = "vec3" /\ f \notin {"x", "y", "z"} ->
                  /\ op.ret = -1
                  /\ ErrKind(last_error) = "Runtime"
                  /\ r = get(op.pre.env, "r")
            [] k = "table" ->
                  /\ op.ret = 0
                  /\ r = Some(IF f = "x" THEN VNumber(5) ELSE VNil)
            [] OTHER ->
                  /\ op.ret = -1
                  /\ ErrKind(last_error) = "Type"
                  /\ r = get(op.pre.env, "r")

\* vec3(1, 2, 3).w was evaluated and failed
C15_witness ==
    /\ Executed(op)
    /\ op.pre.instruction_limit >= 1
    /\ op.source.program = ProgField("vec3", "w")
    /\ op.ret = -1
    /\ last_error.some

----------------------------------------------------------------------------
(* Numeric for: for i = <start>, <limit>[, <step>] with host function probe *)

\* for i = <start>, <limit>[, <step>] do
\*     probe(i)
\* end
ProgFor(start, limit, step) ==
    <<NumericFor("i", start, limit, step,
                 <<ExprStmt(Call(Ident("probe", Sp(2, 5)), <<Ident("i", Sp(2, 11))>>,
                                 Sp(2, 10)),
                            Sp(2, 5))>>,
                 Sp(1, 1))>>

ForStarts == {1, 10}
ForLimits == {1, 3}
ForSteps == {-2, 0, 1, 2}

\* the headers whose three expressions are numbers; step "none" is omitted
ForHeaders ==
    {<<s, l, NumExpr(st)>> : s \in ForStarts, l \in ForLimits, st \in ForSteps}
    \cup {<<s, l, NoExpr>> : s \in ForStarts, l \in ForLimits}

\* the headers with a start, a limit or a step that is not a number
ForBadHeaders ==
    {<<NilLit, NumberLit(3), NoExpr>>,
     <<NumberLit(1), StringLit("a"), NoExpr>>,
     <<NumberLit(1), NumberLit(3), BoolLit(TRUE)>>}

SourcesFor ==
    {SrcProgram(ProgFor(NumberLit(h[1]), NumberLit(h[2]), h[3])) : h \in ForHeaders}
    \cup {SrcProgram(ProgFor(h[1], h[2], h[3])) : h \in ForBadHeaders}

LimitsFor == {MaxLimit}

NextFor ==
    \/ \E src \in SourcesFor : GroveEval(src)
    \/ \E cb \in {CbNil, CbNumber} : GroveRegisterFn("probe", cb)
    \/ \E l \in LimitsFor : GroveSetInstructionLimit(l)

SpecFor == Init /\ [][NextFor]_vars

\* a budget that cuts none of the loops above
ForBudget == 3 * MaxLimit + 10

\* the values start, start + step, ... on the near side of the limit
Visits(start, limit, step) ==
    LET inside(k) == IF step > 0 THEN start + k * step <= limit
                     ELSE start + k * step >= limit
        count == Cardinality({k \in 0..ForBudget : inside(k)})
    IN [k \in 1..count |-> start + (k - 1) * step]

\* the first arguments of the calls of probe, in order, as numbers
ProbeArgs(trace) ==
    LET calls == HostCallSeq(trace) IN
    [k \in 1..Len(calls) |-> grove_value_to_value(calls[k][2][1]).n]

----------------------------------------------------------------------------
(* C16: `for v = start, limit[, step]` fails with a Type error when start,  *)
(* limit or step is not a Number and is rejected with an error before the   *)
(* body runs when the step is 0; otherwise the body runs for i = start,     *)
(* start + step, ... while i <= limit (step > 0) or i >= limit (step < 0),  *)
(* no iteration when the first test fails, v bound to i in each iteration:  *)
(* `for i = 10, 1, -2` visits 10, 8, 6, 4, 2.                               *)
C16_NumericFor ==
    (Executed(op) /\ contains_key(op.pre.host_fns, "probe")
        /\ op.pre.instruction_limit >= 1) =>
       /\ \A h \in ForHeaders :
            op.source.program = ProgFor(NumberLit(h[1]), NumberLit(h[2]), h[3]) =>
               LET step == IF h[3] = NoExpr THEN 1
                           ELSE CHOOSE st \in ForSteps : h[3] = NumExpr(st)
                   uncut == execute([op.pre EXCEPT !.instruction_limit = ForBudget],
                                    op.source.program)
               IN IF step = 0
                  THEN /\ op.ret = -1
                       /\ ErrKind(last_error) = "Runtime"
                       /\ HostCalls(interp.trace, "probe") = 0
                  ELSE /\ uncut.ok
                       /\ ProbeArgs(uncut.it.trace) = Visits(h[1], h[2], step)
                       /\ op.ret = 0 => interp.trace = uncut.it.trace
                       /\ op.ret = -1 => ErrKind(last_error) = "InstructionLimit"
       /\ \A h \in ForBadHeaders :
            op.source.program = ProgFor(h[1], h[2], h[3]) =>
               /\ op.ret = -1
               /\ ErrKind(last_error) = "Type"
               /\ HostCalls(interp.trace, "probe") = 0

\* `for i = 10, 1, -2` ran: uncut it visits 10, 8, 6, 4, 2
C16_witness ==
    /\ Executed(op)
    /\ contains_key(op.pre.host_fns, "probe")
    /\ op.source.program = ProgFor(NumberLit(10), NumberLit(1), NumExpr(-2))
    /\ HostCalls(interp.trace, "probe") >= 3
    /\ ProbeArgs(execute([op.pre EXCEPT !.instruction_limit = ForBudget],
                         op.source.program).it.trace) = <<10, 8, 6, 4, 2>>

----------------------------------------------------------------------------
(* Blueprint invocation: blueprint f(a, b) called with 0 .. 3 arguments     *)

\* probe(a, b)
\* a = 9
\* local t = 5
BpBodyNoReturn ==
    <<ExprStmt(Call(Ident("probe", Sp(2, 5)),
                    <<Ident("a", Sp(2, 11)), Ident("b", Sp(2, 14))>>, Sp(2, 10)),
               Sp(2, 5)),
      Assign(Ident("a", Sp(3, 5)), NumberLit(9), Sp(3, 5)),
      LocalDecl("t", NumberLit(5), Sp(4, 5))>>

\* the same, then: return b
BpBodyReturn == Append(BpBodyNoReturn, Return(Ident("b", Sp(5, 12)), Sp(5, 5)))

BpBodies == {BpBodyNoReturn, BpBodyReturn}

\* blueprint f(a, b)
\*     <body>
\* end
ProgBp(body) == <<Blueprint("f", <<"a", "b">>, body, Sp(1, 1))>>

\* the first k of the arguments 10, 20, 30
BpArgs(k) == SubSeq(<<NumberLit(10), NumberLit(20), NumberLit(30)>>, 1, k)
BpArgCounts == 0..3

\* local a = 1
\* local r = f(<k arguments>)
ProgInvoke(k) ==
    <<LocalDecl("a", NumberLit(1), Sp(1, 1)),
      LocalDecl("r", Call(Ident("f", Sp(2, 11)), BpArgs(k), Sp(2, 12)), Sp(2, 1))>>

\* local a = 1
\* build f(<k arguments>)
ProgInvokeBuild(k) ==
    <<LocalDecl("a", NumberLit(1), Sp(1, 1)),
      Build("f", BpArgs(k), Sp(2, 1))>>

SourcesInvoke ==
    {SrcProgram(ProgBp(b)) : b \in BpBodies}
    \cup {SrcProgram(ProgInvoke(k)) : k \in BpArgCounts}
    \cup {SrcProgram(ProgInvokeBuild(k)) : k \in BpArgCounts}

LimitsInvoke == {4, MaxLimit}

NextInvoke ==
    \/ \E src \in SourcesInvoke : GroveEval(src)
    \/ \E cb \in {CbNil, CbNumber} : GroveRegisterFn("probe", cb)
    \/ \E l \in LimitsInvoke : GroveSetInstructionLimit(l)

SpecInvoke == Init /\ [][NextInvoke]_vars

\* f is a blueprint, probe a host function, and the budget admits the call
InvokeReady(o) ==
    /\ Executed(o)
    /\ contains_key(o.pre.blueprints, "f")
    /\ contains_key(o.pre.host_fns, "probe")
    /\ o.pre.instruction_limit >= 6

\* what parameter j (from 1) is bound to by a call with k arguments
BoundTo(j, k) == IF j <= k THEN VNumber(10 * j) ELSE VNil

----------------------------------------------------------------------------
(* C17: invoking a blueprint with k arguments binds parameter j to argument *)
(* j for j < k and the parameters beyond k to Nil, ignores extra arguments, *)
(* runs the body in a fresh scope and yields the value of its Return, or    *)
(* Nil; the caller's bindings with the names of parameters are unchanged    *)
(* after the call.                                                          *)
C17_BlueprintInvocation ==
    \A k \in BpArgCounts :
       (InvokeReady(op) /\ op.source.program \in {ProgInvoke(k), ProgInvokeBuild(k)}) =>
          /\ op.ret = 0
          /\ HostCallSeq(interp.trace) =
                <<<<"probe", <<value_to_grove_value(BoundTo(1, k)),
                               value_to_grove_value(BoundTo(2, k))>>>>>>
          /\ op.source.program = ProgInvoke(k) =>
                get(interp.env, "r") =
                   Some(IF op.pre.blueprints["f"].body = BpBodyReturn
                        THEN BoundTo(2, k) ELSE VNil)
          /\ get(interp.env, "a") = Some(VNumber(1))
          /\ get(interp.env, "b") = get(op.pre.env, "b")
          /\ get(interp.env, "t") = get(op.pre.env, "t")
          /\ Len(interp.env) = Len(op.pre.env)

\* f(10) ran with a body that returns b: b was Nil, and so is r
C17_witness ==
    /\ InvokeReady(op)
    /\ op.source.program = ProgInvoke(1)
    /\ op.pre.blueprints["f"].body = BpBodyReturn
    /\ op.ret = 0
    /\ get(interp.env, "r") = Some(VNil)
    /\ HostCalls(interp.trace, "probe") = 1

----------------------------------------------------------------------------
(* parser.rs : the Pratt expression parser                                  *)
(* A token is its TokenKind (with the payload of Number, StringLit and      *)
(* Identifier in val) and its position.  A parser is the token vector and   *)
(* the position pos in it; every method returns the parser it leaves.       *)
(* The literals of the AST carry no span in this model, so a parsed         *)
(* expression is returned together with its Expr::span().                   *)

Token(kind, val, line, column) ==
    [kind |-> kind, val |-> val, line |-> line, column |-> column]

ParserNew(tokens) == [tokens |-> tokens, pos |-> 1]

POk(p, v, sp) == [p |-> p, ok |-> TRUE, v |-> v, span |-> sp, err |-> NoError]
PErr(p, e) == [p |-> p, ok |-> FALSE, v |-> <<>>, span |-> Sp(0, 0), err |-> e]

current_token(p) == p.tokens[p.pos]
peek(p) == current_token(p).kind
is_at_end(p) == peek(p) = "Eof"
advance(p) == IF is_at_end(p) THEN p ELSE [p EXCEPT !.pos = @ + 1]
span(p) == Sp(current_token(p).line, current_token(p).column)

expect(p, expected) ==
    IF peek(p) = expected THEN POk(advance(p), <<>>, span(p))
    ELSE PErr(p, syntax(<<"expected", expected, "got", peek(p)>>,
                        current_token(p).line, current_token(p).column))

expect_identifier(p) ==
    IF peek(p) = "Identifier" THEN POk(advance(p), current_token(p).val, span(p))
    ELSE PErr(p, syntax(<<"expected identifier, got", peek(p)>>,
                        current_token(p).line, current_token(p).column))

unary_bp == 13

BindingPower(bop, left_bp, right_bp) ==
    [some |-> TRUE, op |-> bop, left_bp |-> left_bp, right_bp |-> right_bp]
NoBindingPower == [some |-> FALSE, op |-> "", left_bp |-> 0, right_bp |-> 0]

\* a faulty table, with a left-associative power (C18 must reject it)
infix_binding_power_left_pow(p) ==
    LET k == peek(p) IN
    CASE k = "Or" -> BindingPower("Or", 1, 2)
      [] k = "And" -> BindingPower("And", 3, 4)
      [] k = "Equal" -> BindingPower("Eq", 5, 6)
      [] k \in {"NotEqual", "TildeEqual"} -> BindingPower("NotEq", 5, 6)
      [] k = "Less" -> BindingPower("Lt", 5, 6)
      [] k = "LessEqual" -> BindingPower("LtEq", 5, 6)
      [] k = "Greater" -> BindingPower("Gt", 5, 6)
      [] k = "GreaterEqual" -> BindingPower("GtEq", 5, 6)
      [] k = "DotDot" -> BindingPower("Concat", 7, 8)
      [] k = "Plus" -> BindingPower("Add", 9, 10)
      [] k = "Minus" -> BindingPower("Sub", 9, 10)
      [] k = "Star" -> BindingPower("Mul", 11, 12)
      [] k = "Slash" -> BindingPower("Div", 11, 12)
      [] k = "Percent" -> BindingPower("Mod", 11, 12)
      [] k = "Caret" -> BindingPower("Pow", 15, 16)
      [] OTHER -> NoBindingPower

infix_binding_power(p) ==
    LET k == peek(p) IN
    CASE k = "Or" -> BindingPower("Or", 1, 2)
      [] k = "And" -> BindingPower("And", 3, 4)
      [] k = "Equal" -> BindingPower("Eq", 5, 6)
      [] k \in {"NotEqual", "TildeEqual"} -> BindingPower("NotEq", 5, 6)
      [] k = "Less" -> BindingPower("Lt", 5, 6)
      [] k = "LessEqual" -> BindingPower("LtEq", 5, 6)
      [] k = "Greater" -> BindingPower("Gt", 5, 6)
      [] k = "GreaterEqual" -> BindingPower("GtEq", 5, 6)
      [] k = "DotDot" -> BindingPower("Concat", 7, 8)
      [] k = "Plus" -> BindingPower("Add", 9, 10)
      [] k = "Minus" -> BindingPower("Sub", 9, 10)
      [] k = "Star" -> BindingPower("Mul", 11, 12)
      [] k = "Slash" -> BindingPower("Div", 11, 12)
      [] k = "Percent" -> BindingPower("Mod", 11, 12)
      [] k = "Caret" -> BindingPower("Pow", 16, 15)
      [] OTHER -> NoBindingPower

RECURSIVE expression(_, _), expression_loop(_, _, _, _), prefix(_)
RECURSIVE arg_list_more(_, _), elements_more(_, _), fields_more(_, _)

\* the `while Comma` loop of arg_list
arg_list_more(p, args) ==
    IF peek(p) # "Comma" THEN POk(p, args, Sp(0, 0))
    ELSE LET e == expression(advance(p), 0) IN
         IF ~e.ok THEN e ELSE arg_list_more(e.p, Append(args, e.v))

arg_list(p) ==
    IF peek(p) = "RightParen" THEN POk(p, <<>>, Sp(0, 0))
    ELSE LET e == expression(p, 0) IN
         IF ~e.ok THEN e ELSE arg_list_more(e.p, <<e.v>>)

\* the `while Comma` loop of an array literal (a trailing comma is allowed)
elements_more(p, elements) ==
    IF peek(p) # "Comma" \/ peek(advance(p)) = "RightBracket"
    THEN POk(IF peek(p) = "Comma" THEN advance(p) ELSE p, elements, Sp(0, 0))
    ELSE LET e == expression(advance(p), 0) IN
         IF ~e.ok THEN e ELSE elements_more(e.p, Append(elements, e.v))

\* `key = expression` of a table literal
table_field(p) ==
    LET key == expect_identifier(p) IN
    IF ~key.ok THEN key
    ELSE LET a == expect(key.p, "Assign") IN
         IF ~a.ok THEN a
         ELSE LET e == expression(a.p, 0) IN
              IF ~e.ok THEN e ELSE POk(e.p, <<key.v, e.v>>, Sp(0, 0))

\* the `while Comma` loop of a table literal (a trailing comma is allowed)
fields_more(p, fields) ==
    IF peek(p) # "Comma" \/ peek(advance(p)) = "RightBrace"
    THEN POk(IF peek(p) = "Comma" THEN advance(p) ELSE p, fields, Sp(0, 0))
    ELSE LET f == table_field(advance(p)) IN
         IF ~f.ok THEN f ELSE fields_more(f.p, Append(fields, f.v))

\* a unary operator: the operand is parsed with unary_bp
unary(p, uop) ==
    LET operand == expression(advance(p), unary_bp) IN
    IF ~operand.ok THEN operand
    ELSE POk(operand.p, UnaryOp(uop, operand.v, span(p)), span(p))

prefix(p) ==
    LET tok == current_token(p)
        s == Sp(tok.line, tok.column)
    IN CASE tok.kind = "Number" -> POk(advance(p), NumberLit(tok.val), s)
         [] tok.kind = "StringLit" -> POk(advance(p), StringLit(tok.val), s)
         [] tok.kind = "True" -> POk(advance(p), BoolLit(TRUE), s)
         [] tok.kind = "False" -> POk(advance(p), BoolLit(FALSE), s)
         [] tok.kind = "Nil" -> POk(advance(p), NilLit, s)
         [] tok.kind = "Identifier" -> POk(advance(p), Ident(tok.val, s), s)
         [] tok.kind = "Minus" -> unary(p, "Neg")
         [] tok.kind = "Not" -> unary(p, "Not")
         [] tok.kind = "Hash" -> unary(p, "Len")
         [] tok.kind = "LeftParen" ->
               LET e == expression(advance(p), 0) IN
               IF ~e.ok THEN e
               ELSE LET c == expect(e.p, "RightParen") IN
                    IF ~c.ok THEN c ELSE POk(c.p, e.v, e.span)
         [] tok.kind = "LeftBracket" ->
               LET els == IF peek(advance(p)) = "RightBracket"
                          THEN POk(advance(p), <<>>, s)
                          ELSE LET e == expression(advance(p), 0) IN
                               IF ~e.ok THEN e ELSE elements_more(e.p, <<e.v>>)
               IN IF ~els.ok THEN els
                  ELSE LET c == expect(els.p, "RightBracket") IN
                       IF ~c.ok THEN c ELSE POk(c.p, ArrayLit(els.v), s)
         [] tok.kind = "LeftBrace" ->
               LET fs == IF peek(advance(p)) = "RightBrace"
                         THEN POk(advance(p), <<>>, s)
                         ELSE LET f == table_field(advance(p)) IN
                              IF ~f.ok THEN f ELSE fields_more(f.p, <<f.v>>)
               IN IF ~fs.ok THEN fs
                  ELSE LET c == expect(fs.p, "RightBrace") IN
                       IF ~c.ok THEN c ELSE POk(c.p, TableLit(fs.v), s)
         [] OTHER -> PErr(p, syntax(<<"unexpected token", tok.kind>>, tok.line, tok.column))

\* the `loop` of expression: postfix operators first, then the infix ones
expression_loop(p, left, lspan, min_bp) ==
    CASE peek(p) = "LeftParen" ->
            LET a == arg_list(advance(p)) IN
            IF ~a.ok THEN a
            ELSE LET c == expect(a.p, "RightParen") IN
                 IF ~c.ok THEN c
                 ELSE expression_loop(c.p, Call(left, a.v, span(p)), span(p), min_bp)
      [] peek(p) = "Dot" ->
            LET f == expect_identifier(advance(p)) IN
            IF ~f.ok THEN f
            ELSE expression_loop(f.p, FieldAccess(left, f.v, span(p)), span(p), min_bp)
      [] peek(p) = "LeftBracket" ->
            LET index == expression(advance(p), 0) IN
            IF ~index.ok THEN index
            ELSE LET c == expect(index.p, "RightBracket") IN
                 IF ~c.ok THEN c
                 ELSE expression_loop(c.p, IndexAccess(left, index.v, span(p)), span(p),
                                      min_bp)
      [] peek(p) = "Colon" ->
            LET m == expect_identifier(advance(p)) IN
            IF ~m.ok THEN m
            ELSE LET o == expect(m.p, "LeftParen") IN
                 IF ~o.ok THEN o
                 ELSE LET a == arg_list(o.p) IN
                      IF ~a.ok THEN a
                      ELSE LET c == expect(a.p, "RightParen") IN
                           IF ~c.ok THEN c
                           ELSE expression_loop(c.p, MethodCall(left, m.v, a.v, span(p)),
                                                span(p), min_bp)
      [] OTHER ->
            LET bp == infix_binding_power(p) IN
            IF ~bp.some \/ bp.left_bp < min_bp THEN POk(p, left, lspan)
            ELSE LET right == expression(advance(p), bp.right_bp) IN
                 IF ~right.ok THEN right
                 ELSE expression_loop(right.p, BinaryOp(left, bp.op, right.v, lspan),
                                      lspan, min_bp)

expression(p, min_bp) ==
    LET left == prefix(p) IN
    IF ~left.ok THEN left ELSE expression_loop(left.p, left.v, left.span, min_bp)

----------------------------------------------------------------------------
(* Expressions handed to the parser: flat chains of up to three operands    *)
(* a, b, c, each bare or under one unary operator, joined by one infix      *)
(* operator of every precedence level; and a few expressions with numbers,  *)
(* parentheses and postfix operators                                        *)

OperandNames == <<"a", "b", "c">>
Unaries == {"none", "Minus", "Not"}
InfixKinds == {"Or", "And", "Less", "DotDot", "Plus", "Minus", "Star", "Caret"}

Kind(kind) == [kind |-> kind, val |-> ""]
Id(name) == [kind |-> "Identifier", val |-> name]
Num(n) == [kind |-> "Number", val |-> n]

\* operand i from on, operand j > 1 preceded by the infix operator ops[j - 1]
RECURSIVE FlatFrom(_, _, _)
FlatFrom(uns, ops, i) ==
    IF i > Len(uns) THEN <<>>
    ELSE (IF i > 1 THEN <<Kind(ops[i - 1])>> ELSE <<>>)
         \o (IF uns[i] = "none" THEN <<>> ELSE <<Kind(uns[i])>>)
         \o <<Id(OperandNames[i])>>
         \o FlatFrom(uns, ops, i + 1)

\* the token vector of a one-line source: token i at column i, then Eof
Lexed(kinds) ==
    [i \in 1..(Len(kinds) + 1) |->
        IF i <= Len(kinds) THEN Token(kinds[i].kind, kinds[i].val, 1, i)
        ELSE Token("Eof", "", 1, i)]

FlatInputs ==
    UNION {{Lexed(FlatFrom(uns, ops, 1)) :
               uns \in [1..n -> Unaries], ops \in [1..(n - 1) -> InfixKinds]} :
           n \in 1..Len(OperandNames)}

\* x * 2 + 5
TokMulAdd == Lexed(<<Id("x"), Kind("Star"), Num(2), Kind("Plus"), Num(5)>>)
\* - a ^ b
TokNegPow == Lexed(<<Kind("Minus"), Id("a"), Kind("Caret"), Id("b")>>)
\* 2 ^ 3 ^ 2
TokPowPow == Lexed(<<Num(2), Kind("Caret"), Num(3), Kind("Caret"), Num(2)>>)
\* ( a + b ) * c
TokParen ==
    Lexed(<<Kind("LeftParen"), Id("a"), Kind("Plus"), Id("b"), Kind("RightParen"),
            Kind("Star"), Id("c")>>)
\* - f ( a , b ) . x ^ t [ 1 ]
TokPostfix ==
    Lexed(<<Kind("Minus"), Id("f"), Kind("LeftParen"), Id("a"), Kind("Comma"), Id("b"),
            Kind("RightParen"), Kind("Dot"), Id("x"), Kind("Caret"), Id("t"),
            Kind("LeftBracket"), Num(1), Kind("RightBracket")>>)
\* a + * b
TokBad == Lexed(<<Id("a"), Kind("Plus"), Kind("Star"), Id("b")>>)

InputsParse == FlatInputs \cup {TokMulAdd, TokNegPow, TokPowPow, TokParen, TokPostfix, TokBad}

\* Parser::new(tokens) followed by expression(0); a parser is used once
ParserExpression(tokens) ==
    /\ op.name # "expression"
    /\ op' = Op("expression", tokens, <<>>, expression(ParserNew(tokens), 0), InterpreterNew)
    /\ UNCHANGED <<interp, last_error, last_error_line>>
    /\ UNCHANGED envvars

NextParse == \E tokens \in InputsParse : ParserExpression(tokens)

SpecParse == Init /\ [][NextParse]_vars

----------------------------------------------------------------------------
(* The parse shape the precedence table prescribes for a flat chain: split  *)
(* at the infix operator of lowest precedence, the rightmost one of that    *)
(* level (the leftmost for ^); a leading unary operator applies to the      *)
(* whole chain when every infix operator in it binds tighter than unary.    *)

Precedence(kind) ==
    CASE kind = "Or" -> 1
      [] kind = "And" -> 2
      [] kind \in {"Equal", "NotEqual", "TildeEqual", "Less", "LessEqual", "Greater",
                   "GreaterEqual"} -> 3
      [] kind = "DotDot" -> 4
      [] kind \in {"Plus", "Minus"} -> 5
      [] kind \in {"Star", "Slash", "Percent"} -> 6
      [] kind = "unary" -> 7
      [] OTHER -> 8

BinOpOf(kind) ==
    CASE kind = "Or" -> "Or" [] kind = "And" -> "And" [] kind = "Less" -> "Lt"
      [] kind = "DotDot" -> "Concat" [] kind = "Plus" -> "Add" [] kind = "Minus" -> "Sub"
      [] kind = "Star" -> "Mul" [] OTHER -> "Pow"

IsOperand(tok) == tok.kind \in {"Identifier", "Number"}

Leaf(tok) ==
    IF tok.kind = "Number" THEN NumberLit(tok.val)
    ELSE Ident(tok.val, Sp(tok.line, tok.column))

RECURSIVE Shape(_)
Shape(toks) ==
    LET infixes == {i \in 2..Len(toks) : IsOperand(toks[i - 1]) /\ ~IsOperand(toks[i])}
        level(i) == Precedence(toks[i].kind)
        lowest == {i \in infixes : \A j \in infixes : level(i) <= level(j)}
        at == IF \E i \in lowest : toks[i].kind = "Caret"
              THEN CHOOSE i \in lowest : \A j \in lowest : i <= j
              ELSE CHOOSE i \in lowest : \A j \in lowest : i >= j
        first == Sp(toks[1].line, toks[1].column)
    IN IF infixes = {} \/ (~IsOperand(toks[1]) /\ level(at) > Precedence("unary"))
       THEN IF IsOperand(toks[1]) THEN Leaf(toks[1])
            ELSE UnaryOp(IF toks[1].kind = "Minus" THEN "Neg" ELSE "Not",
                         Shape(Tail(toks)), first)
       ELSE BinaryOp(Shape(SubSeq(toks, 1, at - 1)), BinOpOf(toks[at].kind),
                     Shape(SubSeq(toks, at + 1, Len(toks))), first)

----------------------------------------------------------------------------
(* C18: the expression parser yields the parse shape of the binding-power   *)
(* table: ^ is right-associative, every other binary operator is            *)
(* left-associative, and precedence rises or, and, comparison, `..`, + -,   *)
(* * / %, unary, ^; so `x * 2 + 5` is (x * 2) + 5 and `-a ^ b` is -(a ^ b). *)
C18_ParseShape ==
    op.name = "expression" =>
       /\ op.source \in FlatInputs =>
             /\ op.ret.ok
             /\ op.ret.v = Shape(SubSeq(op.source, 1, Len(op.source) - 1))
             /\ peek(op.ret.p) = "Eof"
       /\ op.source = TokMulAdd =>
             op.ret.v = BinaryOp(BinaryOp(Ident("x", Sp(1, 1)), "Mul", NumberLit(2), Sp(1, 1)),
                                 "Add", NumberLit(5), Sp(1, 1))
       /\ op.source = TokNegPow =>
             op.ret.v = UnaryOp("Neg",
                                BinaryOp(Ident("a", Sp(1, 2)), "Pow", Ident("b", Sp(1, 4)),
                                         Sp(1, 2)),
                                Sp(1, 1))
       /\ op.source = TokPowPow =>
             op.ret.v = BinaryOp(NumberLit(2), "Pow",
                                 BinaryOp(NumberLit(3), "Pow", NumberLit(2), Sp(1, 3)),
                                 Sp(1, 1))
       /\ op.source = TokParen =>
             op.ret.v = BinaryOp(BinaryOp(Ident("a", Sp(1, 2)), "Add", Ident("b", Sp(1, 4)),
                                          Sp(1, 2)),
                                 "Mul", Ident("c", Sp(1, 7)), Sp(1, 2))

\* a ^ b ^ c was parsed, as a ^ (b ^ c)
C18_witness ==
    /\ op.name = "expression"
    /\ op.source = Lexed(<<Id("a"), Kind("Caret"), Id("b"), Kind("Caret"), Id("c")>>)
    /\ op.ret.ok
    /\ op.ret.v.right.k = "BinaryOp"

----------------------------------------------------------------------------
(* Host callbacks: h registered with callbacks that succeed or fail         *)

\* a callback that succeeds and writes the string "big"
CbString ==
    Callback(0, GroveValue(3, [string_val |-> [ptr |-> [null |-> FALSE, bytes |-> "big"],
                                               len |-> 3]]))
\* callbacks that fail: with a negative code, and after writing a result
CbFailNeg == Callback(-2, GvNil)
CbFailWritten == Callback(1, GroveValue(2, [number_val |-> 7]))

CallbacksOk == {CbNil, CbFalse, CbNumber, CbString}
CallbacksFail == {CbFail, CbFailNeg, CbFailWritten}

\* local r = h(1)
\* probe(r)
ProgHost ==
    <<LocalDecl("r", Call(Ident("h", Sp(1, 11)), <<NumberLit(1)>>, Sp(1, 12)), Sp(1, 1)),
      ExprStmt(Call(Ident("probe", Sp(2, 1)), <<Ident("r", Sp(2, 7))>>, Sp(2, 6)), Sp(2, 1))>>

\* local r = [probe(1), h(1), probe(2)]
ProgHostInner ==
    <<LocalDecl("r",
                ArrayLit(<<Call(Ident("probe", Sp(1, 12)), <<NumberLit(1)>>, Sp(1, 17)),
                           Call(Ident("h", Sp(1, 22)), <<NumberLit(1)>>, Sp(1, 23)),
                           Call(Ident("probe", Sp(1, 28)), <<NumberLit(2)>>, Sp(1, 33))>>),
                Sp(1, 1))>>

SourcesHost == {SrcProgram(ProgHost), SrcProgram(ProgHostInner)}

LimitsHost == {1, MaxLimit}

NextHost ==
    \/ \E src \in SourcesHost : GroveEval(src)
    \/ \E cb \in CallbacksOk \cup CallbacksFail : GroveRegisterFn("h", cb)
    \/ GroveRegisterFn("probe", CbNil)
    \/ \E l \in LimitsHost : GroveSetInstructionLimit(l)

SpecHost == Init /\ [][NextHost]_vars

\* h and probe are host functions and the budget admits both statements
HostReady(o) ==
    /\ Executed(o)
    /\ contains_key(o.pre.host_fns, "h")
    /\ contains_key(o.pre.host_fns, "probe")
    /\ o.pre.instruction_limit >= 2

\* the value each succeeding callback writes to out_result
Written(cb) ==
    CASE cb = CbNil -> VNil
      [] cb = CbFalse -> VBool(FALSE)
      [] cb = CbNumber -> VNumber(7)
      [] OTHER -> VString("big")

\* the decimal text of a return code
CodeText(cb) == CASE cb = CbFail -> "3" [] cb = CbFailNeg -> "-2" [] OTHER -> "1"

----------------------------------------------------------------------------
(* C19: when the C callback registered under NAME returns a non-zero N      *)
(* during a script call, the eval aborts with the Runtime error `host       *)
(* function 'NAME' returned error code N` positioned at the call,           *)
(* grove_eval returns -1 and nothing after the call executes; when it       *)
(* returns 0, the value written to out_result is the value of the call.     *)
C19_HostCallback ==
    HostReady(op) =>
       LET cb == op.pre.host_fns["h"].callback
           one == value_to_grove_value(VNumber(1))
           failure(line, column) ==
              /\ op.ret = -1
              /\ last_error = SomeStr(<<"[line", ToString(line), ToString(column), "Runtime",
                                        "host function", "h", "returned error code",
                                        CodeText(cb)>>)
              /\ last_error_line = line
              /\ get(interp.env, "r") = get(op.pre.env, "r")
       IN /\ op.source.program = ProgHost =>
             IF cb \in CallbacksFail
             THEN /\ failure(1, 12)
                  /\ HostCallSeq(interp.trace) = <<<<"h", <<one>>>>>>
                  /\ TicksAtLine(interp.trace, 2) = 0
             ELSE /\ op.ret = 0
                  /\ get(interp.env, "r") = Some(Written(cb))
                  /\ HostCallSeq(interp.trace) =
                        <<<<"h", <<one>>>>, <<"probe", <<value_to_grove_value(Written(cb))>>>>>>
          /\ op.source.program = ProgHostInner =>
             IF cb \in CallbacksFail
             THEN /\ failure(1, 23)
                  /\ HostCallSeq(interp.trace) = <<<<"probe", <<one>>>>, <<"h", <<one>>>>>>
             ELSE /\ op.ret = 0
                  /\ get(interp.env, "r") = Some(VArray(<<VNil, Written(cb), VNil>>))

\* h returned -2: the eval failed at the call and probe was not called
C19_witness ==
    /\ HostReady(op)
    /\ op.source.program = ProgHost
    /\ op.pre.host_fns["h"].callback = CbFailNeg
    /\ op.ret = -1
    /\ HostCalls(interp.trace, "h") = 1
    /\ HostCalls(interp.trace, "probe") = 0

----------------------------------------------------------------------------
(* The FFI conversions applied to values of every kind                      *)

FfiNumbers == {-7, -1, 0, 1, 2, 7}
FfiStrings == {"", "a", "b", "big", "small"}
FfiHandles == {0, 1, 2, 2147483647}

FfiScalars ==
    {VNil, VBool(TRUE), VBool(FALSE)}
    \cup {VNumber(n) : n \in FfiNumbers}
    \cup {VString(str) : str \in FfiStrings}
    \cup {VVec3(x, y, z) : x, y, z \in {-1, 0, 7}}
    \cup {VObject(h) : h \in FfiHandles}

FfiContainers ==
    {VArray(<<>>), VArray(<<VNumber(1)>>), VArray(<<VString("a"), VNil>>),
     VArray(<<VArray(<<>>)>>),
     VTable(EmptyMap), VTable(insert(EmptyMap, "x", VNumber(1))),
     VTable(insert(insert(EmptyMap, "a", VBool(TRUE)), "b", VString("big")))}

FfiValues == FfiScalars \cup FfiContainers

\* value_to_grove_value(val)
ValueToGroveValue(val) ==
    /\ op.name # "value_to_grove_value"
    /\ op' = Op("value_to_grove_value", val, <<>>, value_to_grove_value(val), InterpreterNew)
    /\ UNCHANGED <<interp, last_error, last_error_line>>
    /\ UNCHANGED envvars

\* grove_value_to_value applied to the GroveValue just produced
GroveValueToValue ==
    /\ op.name = "value_to_grove_value"
    /\ op' = Op("grove_value_to_value", op.source, <<op.ret>>, grove_value_to_value(op.ret),
                InterpreterNew)
    /\ UNCHANGED <<interp, last_error, last_error_line>>
    /\ UNCHANGED envvars

\* the registered closure called with the one argument val
HostFnCall(val) ==
    /\ op.name # "value_to_grove_value"
    /\ op' = Op("host_fn_call", val, <<>>,
                host_fn_call(interp, HostFn(CbNil, "probe"), <<val>>).it.trace,
                InterpreterNew)
    /\ UNCHANGED <<interp, last_error, last_error_line>>
    /\ UNCHANGED envvars

NextFfi ==
    \/ \E val \in FfiValues : ValueToGroveValue(val)
    \/ GroveValueToValue
    \/ \E val \in FfiValues : HostFnCall(val)

SpecFfi == Init /\ [][NextFfi]_vars

\* GroveValueTag
TagOf(val) ==
    CASE val.t = "Nil" -> 0 [] val.t = "Bool" -> 1 [] val.t = "Number" -> 2
      [] val.t = "String" -> 3 [] val.t = "Vec3" -> 4 [] OTHER -> 5

----------------------------------------------------------------------------
(* C20: value_to_grove_value followed by grove_value_to_value is the        *)
(* identity on every Nil, Bool, Number, String, Vec3 and Object value, with *)
(* the tags 0 .. 5 in that order, and every Array and Table reaches a host  *)
(* callback as Nil.                                                         *)
C20_FfiRoundTrip ==
    /\ op.name = "grove_value_to_value" =>
          IF op.source \in FfiContainers
          THEN op.arg[1].tag = 0 /\ op.ret = VNil
          ELSE op.arg[1].tag = TagOf(op.source) /\ op.ret = op.source
    /\ op.name = "host_fn_call" =>
          /\ Len(op.ret) = 1
          /\ Len(op.ret[1].args) = 1
          /\ op.ret[1].args[1].tag = (IF op.source \in FfiContainers THEN 0 ELSE TagOf(op.source))
          /\ grove_value_to_value(op.ret[1].args[1]) =
                (IF op.source \in FfiContainers THEN VNil ELSE op.source)

\* the string "big" went through both conversions and came back
C20_witness ==
    /\ op.name = "grove_value_to_value"
    /\ op.source = VString("big")
    /\ op.arg[1].tag = 3
    /\ op.arg[1].data.string_val.len = 3
    /\ op.ret = VString("big")

----------------------------------------------------------------------------
(* The Lexer (lexer.rs).  The source is the Vec<char> of Lexer::new, a      *)
(* sequence of one-character strings; pos counts consumed characters.       *)
(* Lexer::peek and Lexer::advance are lex_peek and lex_advance here, the    *)
(* names peek and advance being the Parser's.  Results carry the offset in  *)
(* the source (1-based) at which the token or the failed literal started.   *)

MaxSrcLen == 3     \* longest enumerated source, in characters

Nul == "NUL"       \* the '\0' that peek returns past the end

Digits == {"0", "1", "2", "3", "4", "5", "6", "7", "8", "9"}
Letters ==
    {"a", "b", "c", "d", "e", "f", "g", "h", "i", "j", "k", "l", "m",
     "n", "o", "p", "q", "r", "s", "t", "u", "v", "w", "x", "y", "z",
     "A", "B", "C", "D", "E", "F", "G", "H", "I", "J", "K", "L", "M",
     "N", "O", "P", "Q", "R", "S", "T", "U", "V", "W", "X", "Y", "Z"}
is_ascii_digit(ch) == ch \in Digits
is_ascii_alphabetic(ch) == ch \in Letters
is_ascii_alphanumeric(ch) == ch \in Letters \cup Digits
is_ascii_whitespace(ch) == ch \in {" ", "\t", "\n", "\f", "\r"}

LexerNew(source) == [source |-> source, pos |-> 0, line |-> 1, column |-> 1]

lex_peek(lx) ==
    IF lx.pos < Len(lx.source) THEN lx.source[lx.pos + 1] ELSE Nul

lex_peek_next(lx) ==
    IF lx.pos + 1 < Len(lx.source) THEN lx.source[lx.pos + 2] ELSE Nul

\* a faulty advance that keeps counting columns across a newline
lex_advance_no_reset(lx) ==
    [lx EXCEPT !.pos = @ + 1,
               !.line = IF lex_peek(lx) = "\n" THEN @ + 1 ELSE @,
               !.column = @ + 1]

\* the character returned is lex_peek of the lexer before the call
lex_advance(lx) ==
    [lx EXCEPT !.pos = @ + 1,
               !.line = IF lex_peek(lx) = "\n" THEN @ + 1 ELSE @,
               !.column = IF lex_peek(lx) = "\n" THEN 1 ELSE @ + 1]

RECURSIVE skip_whitespace(_)
skip_whitespace(lx) ==
    IF lx.pos < Len(lx.source) /\ is_ascii_whitespace(lex_peek(lx))
    THEN skip_whitespace(lex_advance(lx))
    ELSE lx

RECURSIVE skip_comment(_)
skip_comment(lx) ==
    IF lx.pos < Len(lx.source) /\ lex_peek(lx) # "\n"
    THEN skip_comment(lex_advance(lx))
    ELSE lx

RECURSIVE skip_whitespace_and_comments(_)
skip_whitespace_and_comments(lx) ==
    LET w == skip_whitespace(lx) IN
    IF lex_peek(w) = "-" /\ lex_peek_next(w) = "-"
    THEN skip_whitespace_and_comments(skip_comment(w))
    ELSE w

LOk(lx, kind, val, line, col, at) ==
    [lx |-> lx, ok |-> TRUE, tok |-> Token(kind, val, line, col), err |-> NoError, at |-> at]
LErr(lx, e, at) ==
    [lx |-> lx, ok |-> FALSE, tok |-> Token("Eof", "", 0, 0), err |-> e, at |-> at]

RECURSIVE skip_digits(_)
skip_digits(lx) ==
    IF lx.pos < Len(lx.source) /\ is_ascii_digit(lex_peek(lx))
    THEN skip_digits(lex_advance(lx))
    ELSE lx

RECURSIVE Collect(_)
Collect(chars) == IF chars = <<>> THEN "" ELSE Head(chars) \o Collect(Tail(chars))

\* source[start..pos] collected into a String
Text(lx, start) == Collect(SubSeq(lx.source, start + 1, lx.pos))

\* digits with an optional fraction always parse as an f64
read_number(lx, line, col) ==
    LET start == lx.pos
        whole == skip_digits(lx)
        done == IF lex_peek(whole) = "." /\ is_ascii_digit(lex_peek_next(whole))
                THEN skip_digits(lex_advance(whole))
                ELSE whole
    IN LOk(done, "Number", Text(done, start), line, col, start + 1)

RECURSIVE read_string_loop(_, _, _)
read_string_loop(lx, quote, s) ==
    IF lx.pos >= Len(lx.source)
    THEN [lx |-> lx, ok |-> FALSE, s |-> s, msg |-> <<"unterminated string">>]
    ELSE LET ch == lex_peek(lx)
             l1 == lex_advance(lx)
         IN IF ch = quote
            THEN [lx |-> l1, ok |-> TRUE, s |-> s, msg |-> <<>>]
            ELSE IF ch = "\\"
            THEN IF l1.pos >= Len(l1.source)
                 THEN [lx |-> l1, ok |-> FALSE, s |-> s,
                       msg |-> <<"unterminated string escape">>]
                 ELSE LET esc == lex_peek(l1)
                          l2 == lex_advance(l1)
                      IN read_string_loop(l2, quote,
                           CASE esc = "n" -> s \o "\n"
                             [] esc = "t" -> s \o "\t"
                             [] esc \in {"\\", "'", "\""} -> s \o esc
                             [] OTHER -> s \o "\\" \o esc)
            ELSE read_string_loop(l1, quote, s \o ch)

read_string(lx, line, col) ==
    LET quote == lex_peek(lx)
        r == read_string_loop(lex_advance(lx), quote, "")
    IN IF r.ok
       THEN LOk(r.lx, "StringLit", r.s, line, col, lx.pos + 1)
       ELSE LErr(r.lx, syntax(r.msg, line, col), lx.pos + 1)

RECURSIVE skip_word(_)
skip_word(lx) ==
    IF lx.pos < Len(lx.source) /\ (is_ascii_alphanumeric(lex_peek(lx)) \/ lex_peek(lx) = "_")
    THEN skip_word(lex_advance(lx))
    ELSE lx

Keyword(text) ==
    CASE text = "local" -> "Local"
      [] text = "let" -> "Let"
      [] text = "fn" -> "Fn"
      [] text = "blueprint" -> "Blueprint"
      [] text = "build" -> "Build"
      [] text = "end" -> "End"
      [] text = "if" -> "If"
      [] text = "then" -> "Then"
      [] text = "elseif" -> "ElseIf"
      [] text = "else" -> "Else"
      [] text = "for" -> "For"
      [] text = "in" -> "In"
      [] text = "do" -> "Do"
      [] text = "while" -> "While"
      [] text = "repeat" -> "Repeat"
      [] text = "until" -> "Until"
      [] text = "return" -> "Return"
      [] text = "break" -> "Break"
      [] text = "continue" -> "Continue"
      [] text = "and" -> "And"
      [] text = "or" -> "Or"
      [] text = "not" -> "Not"
      [] text = "true" -> "True"
      [] text = "false" -> "False"
      [] text = "nil" -> "Nil"
      [] OTHER -> "Identifier"

read_identifier(lx, line, col) ==
    LET start == lx.pos
        done == skip_word(lx)
        text == Text(done, start)
    IN LOk(done, Keyword(text), IF Keyword(text) = "Identifier" THEN text ELSE "",
           line, col, start + 1)

Single ==
    [c \in {"+", "*", "/", "%", "^", "#", "(", ")", "[", "]", "{", "}", ",", ":", "-"} |->
       CASE c = "+" -> "Plus" [] c = "*" -> "Star" [] c = "/" -> "Slash"
         [] c = "%" -> "Percent" [] c = "^" -> "Caret" [] c = "#" -> "Hash"
         [] c = "(" -> "LeftParen" [] c = ")" -> "RightParen"
         [] c = "[" -> "LeftBracket" [] c = "]" -> "RightBracket"
         [] c = "{" -> "LeftBrace" [] c = "}" -> "RightBrace"
         [] c = "," -> "Comma" [] c = ":" -> "Colon" [] c = "-" -> "Minus"]

\* a two-character operator when the follower is next, else the one-character one
Double(lx, follower, two, one, line, col, at) ==
    IF lex_peek(lx) = follower
    THEN LOk(lex_advance(lx), two, "", line, col, at)
    ELSE LOk(lx, one, "", line, col, at)

next_token(lx0) ==
    LET lx == skip_whitespace_and_comments(lx0)
        line == lx.line
        col == lx.column
        at == lx.pos + 1
        ch == lex_peek(lx)
        l1 == lex_advance(lx)
    IN IF lx.pos >= Len(lx.source) THEN LOk(lx, "Eof", "", line, col, at)
       ELSE IF is_ascii_digit(ch) THEN read_number(lx, line, col)
       ELSE IF ch \in {"\"", "'"} THEN read_string(lx, line, col)
       ELSE IF is_ascii_alphabetic(ch) \/ ch = "_" THEN read_identifier(lx, line, col)
       ELSE IF ch \in DOMAIN Single THEN LOk(l1, Single[ch], "", line, col, at)
       ELSE CASE ch = "." -> Double(l1, ".", "DotDot", "Dot", line, col, at)
              [] ch = "=" -> Double(l1, "=", "Equal", "Assign", line, col, at)
              [] ch = "<" -> Double(l1, "=", "LessEqual", "Less", line, col, at)
              [] ch = ">" -> Double(l1, "=", "GreaterEqual", "Greater", line, col, at)
              [] ch \in {"~", "!"} ->
                   IF lex_peek(l1) = "="
                   THEN LOk(lex_advance(l1), IF ch = "~" THEN "TildeEqual" ELSE "NotEqual",
                            "", line, col, at)
                   ELSE LErr(l1, syntax(<<"unexpected character", ch>>, line, col), at)
              [] OTHER -> LErr(l1, syntax(<<"unexpected character", ch>>, line, col), at)

RECURSIVE tokenize_from(_, _, _)
tokenize_from(lx, tokens, starts) ==
    LET r == next_token(lx) IN
    IF ~r.ok
    THEN [ok |-> FALSE, tokens |-> <<>>, starts |-> <<>>, err |-> r.err, at |-> r.at]
    ELSE IF r.tok.kind = "Eof"
    THEN [ok |-> TRUE, tokens |-> Append(tokens, r.tok), starts |-> Append(starts, r.at),
          err |-> NoError, at |-> 0]
    ELSE tokenize_from(r.lx, Append(tokens, r.tok), Append(starts, r.at))

tokenize(lx) == tokenize_from(lx, <<>>, <<>>)

----------------------------------------------------------------------------
(* Lexer inputs: every source over a small alphabet, and longer sources    *)
(* with keywords, operators, comments and strings that span lines.         *)

LexAlphabet == {"a", "1", " ", "\n", "\"", "-", "~", "=", "\\"}
LexEnumerated == UNION {[1..n -> LexAlphabet] : n \in 0..MaxSrcLen}
LexLines == <<"x", "\n", "y", "\n", "z">>
LexKeyword == <<"i", "f", " ", "a", "\n", " ", "t", "h", "e", "n">>
LexComment == <<"-", "-", " ", "c", "\n", "\t", "l", "o", "c", "a", "l", " ", "_", "x">>
LexOperators == <<"a", "~", "=", "b", "\r", "\n", ".", ".", "<", "=", " ", "3", ".", "5">>
LexMultiline == <<"'", "a", "\n", "b", "'", " ", "c", "\n", "d">>
LexUnterminated == <<"a", "\n", " ", "\"", "d", "\n", "'", "\\", "\"">>
LexEscape == <<"\n", " ", "\"", "\\", "n", "\\">>
LexBang == <<"a", "\n", "\n", " ", " ", "!", "a">>
LexSources ==
    LexEnumerated \cup
    {LexLines, LexKeyword, LexComment, LexOperators, LexMultiline, LexUnterminated,
     LexEscape, LexBang}

\* Lexer::new(source).tokenize(); a lexer is used once
LexerTokenize(source) ==
    /\ op.name # "tokenize"
    /\ op' = Op("tokenize", source, <<>>, tokenize(LexerNew(source)), InterpreterNew)
    /\ UNCHANGED <<interp, last_error, last_error_line>>
    /\ UNCHANGED envvars

NextLex == \E source \in LexSources : LexerTokenize(source)

SpecLex == Init /\ [][NextLex]_vars

\* the position of the k-th character of a source, from the text alone
Newlines(source, k) == {j \in 1..(k - 1) : j <= Len(source) /\ source[j] = "\n"}
LineOf(source, k) == 1 + Cardinality(Newlines(source, k))
ColumnOf(source, k) ==
    LET nl == Newlines(source, k)
    IN IF nl = {} THEN k ELSE k - (CHOOSE j \in nl : \A i \in nl : i <= j)

\* C21: tokenize returns a Syntax error or a token list that ends with its
\* only Eof; every token carries the 1-based line and column of its first
\* character (line = 1 + newlines before it, column counted from the last
\* newline), tokens start in source order at a character that is not
\* whitespace, and an unterminated string is reported at its opening quote.
C21_Tokenize ==
    op.name = "tokenize" =>
      LET source == op.source
          r == op.ret
          n == Len(r.tokens)
      IN IF r.ok
         THEN /\ n >= 1 /\ n <= Len(source) + 1
              /\ r.tokens[n].kind = "Eof"
              /\ r.starts[n] = Len(source) + 1
              /\ \A i \in 1..n :
                   /\ i < n => r.tokens[i].kind # "Eof"
                   /\ i < n => r.starts[i] < r.starts[i + 1]
                   /\ i < n => ~is_ascii_whitespace(source[r.starts[i]])
                   /\ r.tokens[i].line = LineOf(source, r.starts[i])
                   /\ r.tokens[i].column = ColumnOf(source, r.starts[i])
         ELSE /\ r.err.kind = "Syntax"
              /\ r.at \in 1..Len(source)
              /\ r.err.line = LineOf(source, r.at)
              /\ r.err.column = ColumnOf(source, r.at)
              /\ r.err.message = <<"unterminated string">> =>
                   /\ source[r.at] \in {"\"", "'"}
                   /\ \A j \in (r.at + 1)..Len(source) :
                        source[j] = source[r.at] => j > r.at + 1 /\ source[j - 1] = "\\"

\* a string that spans a line, then a token on the second line past column 1
C21_witness ==
    /\ op.name = "tokenize"
    /\ op.ret.ok
    /\ \E i \in 1..Len(op.ret.tokens) :
         /\ op.ret.tokens[i].kind = "Identifier"
         /\ op.ret.tokens[i].line = 2
         /\ op.ret.tokens[i].column > 1
         /\ i > 1 /\ op.ret.tokens[i - 1].kind = "StringLit"
         /\ op.ret.tokens[i - 1].line = 1

----------------------------------------------------------------------------
(* Ticks of statements and loop back-edges.  Every program has its loop on *)
(* line 2 and the first statement of the loop body on line 3.              *)

\* local i = 0
\* while i < n do
\*     i = i + 1
\*     continue            (only with cont)
\* end
ProgWhileN(n, cont) ==
    <<LocalDecl("i", NumberLit(0), Sp(1, 1)),
      While(BinaryOp(Ident("i", Sp(2, 7)), "Lt", NumberLit(n), Sp(2, 9)),
            <<Assign(Ident("i", Sp(3, 5)),
                     BinaryOp(Ident("i", Sp(3, 9)), "Add", NumberLit(1), Sp(3, 11)),
                     Sp(3, 5))>>
            \o (IF cont THEN <<Continue(Sp(4, 5))>> ELSE <<>>),
            Sp(2, 1))>>

\* local i = 0
\* repeat
\*     i = i + 1
\*     continue            (only with cont)
\* until i >= n
ProgRepeatN(n, cont) ==
    <<LocalDecl("i", NumberLit(0), Sp(1, 1)),
      RepeatUntil(<<Assign(Ident("i", Sp(3, 5)),
                           BinaryOp(Ident("i", Sp(3, 9)), "Add", NumberLit(1), Sp(3, 11)),
                           Sp(3, 5))>>
                  \o (IF cont THEN <<Continue(Sp(4, 5))>> ELSE <<>>),
                  BinaryOp(Ident("i", Sp(5, 7)), "Ge", NumberLit(n), Sp(5, 9)),
                  Sp(2, 1))>>

\* local i = 0
\* for j = 1, n do
\*     local t = j         (continue with cont)
\* end
ProgForN(n, cont) ==
    <<LocalDecl("i", NumberLit(0), Sp(1, 1)),
      NumericFor("j", NumberLit(1), NumberLit(n), NoExpr,
                 IF cont THEN <<Continue(Sp(3, 5))>>
                 ELSE <<LocalDecl("t", Ident("j", Sp(3, 15)), Sp(3, 5))>>,
                 Sp(2, 1))>>

\* local i = 0
\* for k in i do
\* end
ProgGenericFor ==
    <<LocalDecl("i", NumberLit(0), Sp(1, 1)),
      GenericFor(<<"k">>, Ident("i", Sp(2, 10)), <<>>, Sp(2, 1))>>

TickTrips == {0, 1, 2}
TickLoops == {"While", "RepeatUntil", "NumericFor"}
ProgTick(kind, n, cont) ==
    CASE kind = "While" -> ProgWhileN(n, cont)
      [] kind = "RepeatUntil" -> ProgRepeatN(n, cont)
      [] OTHER -> ProgForN(n, cont)

SourcesTick ==
    {SrcProgram(ProgTick(k, n, c)) : k \in TickLoops, n \in TickTrips, c \in BOOLEAN}
    \cup {SrcProgram(ProgGenericFor)}

LimitsTick == {3, MaxLimit}

NextTick ==
    \/ \E src \in SourcesTick : GroveEval(src)
    \/ \E l \in LimitsTick : GroveSetInstructionLimit(l)

SpecTick == Init /\ [][NextTick]_vars

\* the passes through the loop body, and the returns from its end to its top
Iterations(kind, n) == IF kind = "RepeatUntil" /\ n = 0 THEN 1 ELSE n
BackEdges(kind, n) == IF kind = "RepeatUntil" THEN Iterations(kind, n) - 1 ELSE n

\* the counter values of the recorded ticks are 1, 2, 3, ...
CountsUp(trace) ==
    LET ticks == SelectSeq(trace, LAMBDA ev : ev.e = "tick")
    IN \A i \in 1..Len(ticks) : ticks[i].c = i

\* C22: every executed statement ticks once at its head, a GenericFor
\* included, every back-edge of a While, NumericFor or RepeatUntil ticks once
\* more, also after a Continue, and the counter only counts up.
C22_TickPerStatement ==
    /\ Executed(op) => CountsUp(interp.trace)
    /\ \A kind \in TickLoops, n \in TickTrips, cont \in BOOLEAN :
         (Executed(op) /\ op.source.program = ProgTick(kind, n, cont) /\ op.ret = 0) =>
           /\ TicksAtLine(interp.trace, 1) = 1
           /\ TicksAtLine(interp.trace, 3) = Iterations(kind, n)
           /\ TicksAtLine(interp.trace, 2) = 1 + BackEdges(kind, n)
    /\ (Executed(op) /\ op.source.program = ProgGenericFor
          /\ op.pre.instruction_limit >= 2) =>
           TicksAtLine(interp.trace, 2) = 1

----------------------------------------------------------------------------
(* Break, Continue and Return inside nested blocks and loops.  The inner   *)
(* loop counts its passes on line 4; the statements on lines 7 and 9       *)
(* follow the signal in its block and in the loop body, line 11 follows    *)
(* the inner loop and line 13 the outer loop.                              *)

\* a limit that cuts none of the programs below
NestLimit == 5 * MaxLimit

\* local m = <line>
Mark(line, col) == LocalDecl("m", NumberLit(line), Sp(line, col))

Signal(sig) ==
    CASE sig = "Break" -> Break(Sp(6, 13))
      [] sig = "Continue" -> Continue(Sp(6, 13))
      [] OTHER -> Return(NumberLit(5), Sp(6, 13))

\*         n = n + 1
\*         if true then
\*             <sig>
\*             local m = 7
\*         end
\*         local m = 9
SignalBody(sig) ==
    <<Assign(Ident("n", Sp(4, 9)),
             BinaryOp(Ident("n", Sp(4, 13)), "Add", NumberLit(1), Sp(4, 15)), Sp(4, 9)),
      If(BoolLit(TRUE), <<Signal(sig), Mark(7, 13)>>, <<>>, NoBody, Sp(5, 9)),
      Mark(9, 9)>>

\*     while n < 2 do ... end    repeat ... until n >= 2    for b = 1, 2 do ... end
InnerLoop(kind, sig) ==
    CASE kind = "While" ->
           While(BinaryOp(Ident("n", Sp(3, 11)), "Lt", NumberLit(2), Sp(3, 13)),
                 SignalBody(sig), Sp(3, 5))
      [] kind = "RepeatUntil" ->
           RepeatUntil(SignalBody(sig),
                       BinaryOp(Ident("n", Sp(10, 11)), "Ge", NumberLit(2), Sp(10, 13)),
                       Sp(3, 5))
      [] OTHER ->
           NumericFor("b", NumberLit(1), NumberLit(2), NoExpr, SignalBody(sig), Sp(3, 5))

\* local n = 0
\* for a = 1, 2 do
\*     <inner loop>
\*     local m = 11
\* end
\* local m = 13
NestBody(kind, sig) ==
    <<LocalDecl("n", NumberLit(0), Sp(1, 1)),
      NumericFor("a", NumberLit(1), NumberLit(2), NoExpr,
                 <<InnerLoop(kind, sig), Mark(11, 5)>>, Sp(2, 1)),
      Mark(13, 1)>>

\* the body at top level, or as the body of blueprint f (closed by
\* `return 4` on line 14) followed by
\* local r = f()
\* local m = 17
ProgSignal(kind, sig, inside) ==
    IF inside = "program" THEN NestBody(kind, sig)
    ELSE <<Blueprint("f", <<>>, NestBody(kind, sig) \o <<Return(NumberLit(4), Sp(14, 1))>>,
                     Sp(0, 1)),
           LocalDecl("r", Call(Ident("f", Sp(16, 11)), <<>>, Sp(16, 12)), Sp(16, 1)),
           Mark(17, 1)>>

SignalLoops == {"While", "RepeatUntil", "NumericFor"}
Signals == {"Break", "Continue", "Return"}
Insides == {"program", "blueprint"}

SourcesSignal ==
    {SrcProgram(ProgSignal(k, s, w)) : k \in SignalLoops, s \in Signals, w \in Insides}

LimitsSignal == {NestLimit}

NextSignal ==
    \/ \E src \in SourcesSignal : GroveEvalWithin(src, NestLimit)
    \/ \E l \in LimitsSignal : GroveSetInstructionLimit(l)

SpecSignal == Init /\ [][NextSignal]_vars

\* passes of the inner loop over both passes of the outer loop
InnerPasses(kind, sig) ==
    CASE sig = "Return" -> 1
      [] sig = "Break" -> 2
      [] kind = "While" -> 2
      [] kind = "RepeatUntil" -> 3
      [] OTHER -> 4

\* how often the statement on a line must run
SignalRuns(kind, sig, inside, line) ==
    CASE line = 4 -> InnerPasses(kind, sig)
      [] line \in {7, 9} -> 0
      [] line = 11 -> IF sig = "Return" THEN 0 ELSE 2
      [] line \in {13, 14} -> IF sig = "Return" \/ (line = 14 /\ inside = "program") THEN 0 ELSE 1
      [] OTHER -> IF inside = "program" THEN 0 ELSE 1

SignalLines == {4, 7, 9, 11, 13, 14, 16, 17}

SignalReady(o) == Executed(o) /\ o.pre.instruction_limit = NestLimit

\* C23: a Break two blocks deep ends only the inner loop (the statement
\* after it and the next pass of the outer loop run), a Continue skips only
\* the rest of the inner pass, and a Return ends the blueprint call with its
\* value, or the whole program at top level: nothing after it runs there.
C23_ControlFlow ==
    \A kind \in SignalLoops, sig \in Signals, inside \in Insides :
      (SignalReady(op) /\ op.source.program = ProgSignal(kind, sig, inside)) =>
        /\ op.ret = 0
        /\ \A line \in SignalLines :
             TicksAtLine(interp.trace, line) = SignalRuns(kind, sig, inside, line)
        /\ inside = "blueprint" =>
             get(interp.env, "r") = Some(VNumber(IF sig = "Return" THEN 5 ELSE 4))

\* a Return from the inner loop of the blueprint body, seen by the caller
C23_witness ==
    /\ SignalReady(op)
    /\ op.source.program = ProgSignal("NumericFor", "Return", "blueprint")
    /\ get(interp.env, "r") = Some(VNumber(5))
    /\ TicksAtLine(interp.trace, 17) = 1
    /\ op.ret = 0

----------------------------------------------------------------------------
(* Evaluation order.  Every operand is a call probe(id, ...) of a host      *)
(* function that returns 7; the ids count up in the order the calls must be *)
(* made.  The call with id = fail is a call of bad, a host function that    *)
(* fails.                                                                   *)

\* probe(id, args...)  or  bad(id, args...)
Numbered(id, fail, args, col) ==
    Call(Ident(IF id = fail THEN "bad" ELSE "probe", Sp(2, col)),
         <<NumberLit(id)>> \o args, Sp(2, col + 5))

OrderBinOps == {"Add", "Sub", "Lt", "Eq", "Concat"}
OrderShapes == OrderBinOps \cup {"Array", "Table", "Args", "Tree", "Index"}

\* the right-hand side of line 2 and the number of calls in it
OrderExpr(shape, fail) ==
    CASE shape \in OrderBinOps ->
           \* probe(2) <op> probe(3)
           BinaryOp(Numbered(2, fail, <<>>, 11), shape, Numbered(3, fail, <<>>, 22), Sp(2, 20))
      [] shape = "Array" ->
           \* [probe(2), probe(3), probe(4)]
           ArrayLit(<<Numbered(2, fail, <<>>, 12), Numbered(3, fail, <<>>, 22),
                      Numbered(4, fail, <<>>, 32)>>)
      [] shape = "Table" ->
           \* {a = probe(2), b = probe(3), c = probe(4)}
           TableLit(<<<<"a", Numbered(2, fail, <<>>, 16)>>, <<"b", Numbered(3, fail, <<>>, 30)>>,
                      <<"c", Numbered(4, fail, <<>>, 44)>>>>)
      [] shape = "Args" ->
           \* probe(5, probe(2), probe(3, probe(4)))  -- ids in order of invocation
           Numbered(5, fail, <<Numbered(2, fail, <<>>, 20),
                              Numbered(4, fail, <<Numbered(3, fail, <<>>, 40)>>, 30)>>, 11)
      [] shape = "Tree" ->
           \* (probe(2) + probe(3)) * (probe(4) - probe(5))
           BinaryOp(BinaryOp(Numbered(2, fail, <<>>, 12), "Add", Numbered(3, fail, <<>>, 23),
                             Sp(2, 21)),
                    "Mul",
                    BinaryOp(Numbered(4, fail, <<>>, 36), "Sub", Numbered(5, fail, <<>>, 47),
                             Sp(2, 45)),
                    Sp(2, 33))
      [] OTHER ->
           \* [probe(2), probe(3)][probe(4) - probe(5)]
           IndexAccess(ArrayLit(<<Numbered(2, fail, <<>>, 12), Numbered(3, fail, <<>>, 22)>>),
                       BinaryOp(Numbered(4, fail, <<>>, 33), "Sub", Numbered(5, fail, <<>>, 44),
                                Sp(2, 42)),
                       Sp(2, 32))

OrderCalls(shape) ==
    CASE shape \in OrderBinOps -> 2
      [] shape \in {"Array", "Table"} -> 3
      [] OTHER -> 4

\* probe(1)
\* local r = <expr>
\* probe(<last id>)
ProgOrder(shape, fail) ==
    <<ExprStmt(Call(Ident("probe", Sp(1, 1)), <<NumberLit(1)>>, Sp(1, 6)), Sp(1, 1)),
      LocalDecl("r", OrderExpr(shape, fail), Sp(2, 1)),
      ExprStmt(Call(Ident("probe", Sp(3, 1)), <<NumberLit(OrderCalls(shape) + 2)>>, Sp(3, 6)),
               Sp(3, 1))>>

\* fail = 0: no call fails
OrderFails(shape) == 0..(OrderCalls(shape) + 1) \ {1}

SourcesOrder == {SrcProgram(ProgOrder(sh, f)) : sh \in OrderShapes, f \in 0..5}

LimitsOrder == {2, MaxLimit}

NextOrder ==
    \/ \E src \in SourcesOrder : GroveEval(src)
    \/ GroveRegisterFn("probe", CbNumber)
    \/ GroveRegisterFn("bad", CbFail)
    \/ \E l \in LimitsOrder : GroveSetInstructionLimit(l)

SpecOrder == Init /\ [][NextOrder]_vars

OrderReady(o) ==
    /\ Executed(o)
    /\ o.pre.instruction_limit = MaxLimit
    /\ contains_key(o.pre.host_fns, "probe")
    /\ contains_key(o.pre.host_fns, "bad")

\* C24: host functions are invoked in program order of the statements and,
\* within an expression, operand by operand from left to right, the calls in
\* the arguments of a call before that call; the first failing call is the
\* last one made, and the eval fails exactly then.
C24_EvaluationOrder ==
    \A shape \in OrderShapes, fail \in 0..5 :
      (OrderReady(op) /\ op.source.program = ProgOrder(shape, fail)) =>
        LET fails == fail \in OrderFails(shape) \ {0}
            last == IF fails THEN fail ELSE OrderCalls(shape) + 2
        IN /\ ProbeArgs(interp.trace) = [k \in 1..last |-> k]
           /\ (op.ret = 0) <=> ~fails
           /\ HostCalls(interp.trace, "bad") = IF fails THEN 1 ELSE 0

\* the second of four calls fails: two calls were made, the eval failed
C24_witness ==
    /\ OrderReady(op)
    /\ op.source.program = ProgOrder("Tree", 3)
    /\ ProbeArgs(interp.trace) = <<1, 2, 3>>
    /\ HostCalls(interp.trace, "bad") = 1
    /\ op.ret # 0

----------------------------------------------------------------------------
(* Assignment through field and index targets *)

TableOf(key, v) == TableLit(<<<<key, v>>>>)

\* local a = {b = {c = 1}}
\* local z = {b = {c = 1}}
\* a.b.c = <x>
ProgNestedField(x) ==
    <<LocalDecl("a", TableOf("b", TableOf("c", NumberLit(1))), Sp(1, 1)),
      LocalDecl("z", TableOf("b", TableOf("c", NumberLit(1))), Sp(2, 1)),
      Assign(FieldAccess(FieldAccess(Ident("a", Sp(3, 1)), "b", Sp(3, 2)), "c", Sp(3, 4)),
             NumberLit(x), Sp(3, 1))>>

\* local a = {b = 1}
\* local z = {b = 1}
\* a.b = <x>
ProgField1(x) ==
    <<LocalDecl("a", TableOf("b", NumberLit(1)), Sp(1, 1)),
      LocalDecl("z", TableOf("b", NumberLit(1)), Sp(2, 1)),
      Assign(FieldAccess(Ident("a", Sp(3, 1)), "b", Sp(3, 2)), NumberLit(x), Sp(3, 1))>>

\* local a = [1, 1]
\* local z = [1, 1]
\* a[1] = <x>
ProgIndex1(x) ==
    <<LocalDecl("a", ArrayLit(<<NumberLit(1), NumberLit(1)>>), Sp(1, 1)),
      LocalDecl("z", ArrayLit(<<NumberLit(1), NumberLit(1)>>), Sp(2, 1)),
      Assign(IndexAccess(Ident("a", Sp(3, 1)), NumberLit(1), Sp(3, 2)), NumberLit(x),
             Sp(3, 1))>>

\* local a = {b = 1}
\* local z = nil
\* if true then
\*     local a = {b = 5}
\*     a["b"] = <x>
\*     z = a
\* end
ProgShadowed(x) ==
    <<LocalDecl("a", TableOf("b", NumberLit(1)), Sp(1, 1)),
      LocalDecl("z", NilLit, Sp(2, 1)),
      If(BoolLit(TRUE),
         <<LocalDecl("a", TableOf("b", NumberLit(5)), Sp(4, 5)),
           Assign(IndexAccess(Ident("a", Sp(5, 5)), StringLit("b"), Sp(5, 6)), NumberLit(x),
                  Sp(5, 5)),
           Assign(Ident("z", Sp(6, 5)), Ident("a", Sp(6, 9)), Sp(6, 5))>>,
         <<>>, NoBody, Sp(3, 1))>>

AssignedValues == {2, 3, 4}
AssignKinds == {"nested", "field", "index", "shadowed"}
ProgAssign(kind, x) ==
    CASE kind = "nested" -> ProgNestedField(x)
      [] kind = "field" -> ProgField1(x)
      [] kind = "index" -> ProgIndex1(x)
      [] OTHER -> ProgShadowed(x)

SourcesAssign == {SrcProgram(ProgAssign(k, x)) : k \in AssignKinds, x \in AssignedValues}

LimitsAssign == {2, 4, MaxLimit}

NextAssign ==
    \/ \E src \in SourcesAssign : GroveEval(src)
    \/ \E l \in LimitsAssign : GroveSetInstructionLimit(l)

SpecAssign == Init /\ [][NextAssign]_vars

\* the bindings of a and z the program must end with
AssignedA(kind, x) ==
    CASE kind = "nested" -> VTable([b |-> VTable([c |-> VNumber(x)])])
      [] kind = "field" -> VTable([b |-> VNumber(x)])
      [] kind = "index" -> VArray(<<VNumber(1), VNumber(x)>>)
      [] OTHER -> VTable([b |-> VNumber(1)])
AssignedZ(kind, x) ==
    CASE kind = "nested" -> VTable([b |-> VTable([c |-> VNumber(1)])])
      [] kind = "field" -> VTable([b |-> VNumber(1)])
      [] kind = "index" -> VArray(<<VNumber(1), VNumber(1)>>)
      [] OTHER -> VTable([b |-> VNumber(x)])

AssignReady(o) == Executed(o) /\ o.pre.instruction_limit = MaxLimit /\ Len(o.pre.env) = 1

\* C25: `a.b.c = x` updates the binding of a (and nothing else); `a.b = x`
\* and `a[k] = x` replace the binding of a that the scope walk finds, the
\* innermost one, by the updated container.
C25_AssignUpdatesBase ==
    \A kind \in AssignKinds, x \in AssignedValues :
      (AssignReady(op) /\ op.source.program = ProgAssign(kind, x)) =>
        /\ op.ret = 0
        /\ get(interp.env, "a") = Some(AssignedA(kind, x))
        /\ get(interp.env, "z") = Some(AssignedZ(kind, x))
        /\ \A name \in DOMAIN op.pre.env[1] \ {"a", "z"} :
             get(interp.env, name) = get(op.pre.env, name)

----------------------------------------------------------------------------
(* Value semantics of arrays and tables *)

\* {f = 1}  or  [1, 1]
ContainerLit(kind) ==
    IF kind = "table" THEN TableOf("f", NumberLit(1))
    ELSE ArrayLit(<<NumberLit(1), NumberLit(1)>>)

\* <name>.f = <x>  or  <name>[0] = <x>
Mutate(kind, name, x, line, col) ==
    Assign(IF kind = "table" THEN FieldAccess(Ident(name, Sp(line, col)), "f", Sp(line, col + 1))
           ELSE IndexAccess(Ident(name, Sp(line, col)), NumberLit(0), Sp(line, col + 1)),
           NumberLit(x), Sp(line, col))

\* local a = <container>
\* local b = a
\* b.f = <x>
ProgCopy(kind, x) ==
    <<LocalDecl("a", ContainerLit(kind), Sp(1, 1)),
      LocalDecl("b", Ident("a", Sp(2, 11)), Sp(2, 1)),
      Mutate(kind, "b", x, 3, 1)>>

\* blueprint m(t)
\*     t.f = <x>
\*     return t
\* end
\* local a = <container>
\* local b = m(a)
ProgMutateParam(kind, x) ==
    <<Blueprint("m", <<"t">>,
                <<Mutate(kind, "t", x, 2, 5), Return(Ident("t", Sp(3, 12)), Sp(3, 5))>>,
                Sp(1, 1)),
      LocalDecl("a", ContainerLit(kind), Sp(5, 1)),
      LocalDecl("b", Call(Ident("m", Sp(6, 11)), <<Ident("a", Sp(6, 13))>>, Sp(6, 12)),
                Sp(6, 1))>>

\* blueprint m(t)
\*     t.f = <x>
\* end
\* local a = <container>
\* local b = a
\* build m(a)
ProgBuildParam(kind, x) ==
    <<Blueprint("m", <<"t">>, <<Mutate(kind, "t", x, 2, 5)>>, Sp(1, 1)),
      LocalDecl("a", ContainerLit(kind), Sp(4, 1)),
      LocalDecl("b", Ident("a", Sp(5, 11)), Sp(5, 1)),
      Build("m", <<Ident("a", Sp(6, 9))>>, Sp(6, 1))>>

ContainerKinds == {"table", "array"}
ValueForms == {"copy", "call", "build"}
ProgValue(form, kind, x) ==
    CASE form = "copy" -> ProgCopy(kind, x)
      [] form = "call" -> ProgMutateParam(kind, x)
      [] OTHER -> ProgBuildParam(kind, x)

MutatedValues == {2, 3}

SourcesValue ==
    {SrcProgram(ProgValue(f, k, x)) : f \in ValueForms, k \in ContainerKinds,
                                      x \in MutatedValues}

LimitsValue == {MaxLimit}

NextValue ==
    \/ \E src \in SourcesValue : GroveEval(src)
    \/ \E l \in LimitsValue : GroveSetInstructionLimit(l)

SpecValue == Init /\ [][NextValue]_vars

ContainerOf(kind, x) ==
    IF kind = "table" THEN VTable([f |-> VNumber(x)]) ELSE VArray(<<VNumber(x), VNumber(1)>>)

ValueReady(o) == Executed(o) /\ o.pre.instruction_limit = MaxLimit /\ Len(o.pre.env) = 1

\* C26: an assignment through the copy b, or through the parameter of a
\* blueprint that was passed a, leaves the container bound to a as it was;
\* the copy, and the container the blueprint returns, carry the update.
C26_ValueSemantics ==
    \A form \in ValueForms, kind \in ContainerKinds, x \in MutatedValues :
      (ValueReady(op) /\ op.source.program = ProgValue(form, kind, x)) =>
        /\ op.ret = 0
        /\ get(interp.env, "a") = Some(ContainerOf(kind, 1))
        /\ get(interp.env, "b") = Some(ContainerOf(kind, IF form = "build" THEN 1 ELSE x))
        /\ Len(interp.env) = 1

\* a blueprint has updated its table parameter and returned it
C26_witness ==
    /\ ValueReady(op)
    /\ op.source.program = ProgValue("call", "table", 3)
    /\ get(interp.env, "a") = Some(VTable([f |-> VNumber(1)]))
    /\ get(interp.env, "b") = Some(VTable([f |-> VNumber(3)]))

----------------------------------------------------------------------------
(* Programs that never end by themselves *)

CallF(name, line, col) == Call(Ident(name, Sp(line, col)), <<>>, Sp(line, col + 1))

\* while true do <body> end
EndlessWhile(body) == <<While(BoolLit(TRUE), body, Sp(1, 1))>>
\* repeat <body> until false
EndlessRepeat(body) == <<RepeatUntil(body, BoolLit(FALSE), Sp(1, 1))>>
\* for i = 1, 1000 do <body> end
LongFor(body) == <<NumericFor("i", NumberLit(1), NumberLit(1000), NoExpr, body, Sp(1, 1))>>

\* the loop bodies: empty, `continue`, a nested loop left by break
EndlessBodies ==
    {<<>>,
     <<Continue(Sp(2, 5))>>,
     <<While(BoolLit(TRUE), <<Break(Sp(3, 9))>>, Sp(2, 5))>>}

\* blueprint f()
\*     f()                 or  return f()  or  build f()  or  g()
\* end
\* blueprint g()
\*     f()
\* end
\* f()
EndlessRecursion(how) ==
    <<Blueprint("f", <<>>,
                <<CASE how = "call" -> ExprStmt(CallF("f", 2, 5), Sp(2, 5))
                    [] how = "return" -> Return(CallF("f", 2, 12), Sp(2, 5))
                    [] how = "build" -> Build("f", <<>>, Sp(2, 5))
                    [] OTHER -> ExprStmt(CallF("g", 2, 5), Sp(2, 5))>>,
                Sp(1, 1)),
      Blueprint("g", <<>>, <<ExprStmt(CallF("f", 5, 5), Sp(5, 5))>>, Sp(4, 1)),
      ExprStmt(CallF("f", 7, 1), Sp(7, 1))>>

Recursions == {"call", "return", "build", "mutual"}

Endless ==
    {EndlessWhile(b) : b \in EndlessBodies} \cup {EndlessRepeat(b) : b \in EndlessBodies}
    \cup {LongFor(b) : b \in EndlessBodies} \cup {EndlessRecursion(h) : h \in Recursions}

SourcesEndless == {SrcProgram(p) : p \in Endless}

LimitsEndless == {0, 2, MaxLimit}

NextEndless ==
    \/ \E src \in SourcesEndless : GroveEval(src)
    \/ \E l \in LimitsEndless : GroveSetInstructionLimit(l)

SpecEndless == Init /\ [][NextEndless]_vars

\* C27: under every limit the eval of a program that would never end by
\* itself (an endless while or repeat, a long for, with an empty body, with
\* `continue`, with a nested loop; endless direct and mutual recursion of
\* blueprints) returns: it fails with InstructionLimit at tick limit + 1,
\* every tick having raised the counter by one.
C27_EndlessProgramsAreCut ==
    (Executed(op) /\ op.source.program \in Endless) =>
      /\ op.ret # 0
      /\ ErrKind(last_error) = "InstructionLimit"
      /\ interp.instruction_count = op.pre.instruction_limit + 1
      /\ TickCount(interp.trace) = op.pre.instruction_limit + 1
      /\ CountsUp(interp.trace)

\* mutual recursion cut at the largest limit
C27_witness ==
    /\ Executed(op)
    /\ op.source.program = EndlessRecursion("mutual")
    /\ op.pre.instruction_limit = MaxLimit
    /\ ErrKind(last_error) = "InstructionLimit"
    /\ interp.instruction_count = MaxLimit + 1
    /\ Len(interp.env) > 3

----------------------------------------------------------------------------
(* grove_eval of sources that fail in the lexer or in the parser.  The     *)
(* lexer errors are the ones tokenize gives for the text; the text starts  *)
(* with statements that would change the VM if they were run.              *)

\* local a = 5         (then, on line 2)  "a
TextUnterminated ==
    <<"l", "o", "c", "a", "l", " ", "a", " ", "=", " ", "5", "\n", "\"", "a">>
\* probe(1) ~
TextTilde == <<"p", "r", "o", "b", "e", "(", "1", ")", " ", "~">>
\* blueprint b() end  (then, on line 2)  @
TextAt ==
    <<"b", "l", "u", "e", "p", "r", "i", "n", "t", " ", "b", "(", ")", " ", "e", "n", "d",
      "\n", "@">>

LexFail(text) == SrcLexErr(tokenize(LexerNew(text)).err)

\* a + * b
SrcBadOperand == SrcParseErr(expression(ParserNew(TokBad), 0).err)

SourcesFront ==
    {LexFail(TextUnterminated), LexFail(TextTilde), LexFail(TextAt), SrcBadOperand, SrcDangling,
     SrcProgram(ProgProbe), SrcProgram(ProgBuildDef("b")), SrcProgram(ProgCount)}

LimitsFront == {2, MaxLimit}

NextFront ==
    \/ \E src \in SourcesFront : GroveEval(src)
    \/ GroveRegisterFn("probe", CbNil)
    \/ \E l \in LimitsFront : GroveSetInstructionLimit(l)

SpecFront == Init /\ [][NextFront]_vars

\* the error of the lexer or else of the parser
FrontError(source) == IF source.lex # NoError THEN source.lex ELSE source.parse
FailsInFront(source) == source.form = "text" /\ FrontError(source) # NoError

\* C28: a grove_eval whose source fails in the lexer or the parser returns
\* -1 and leaves the interpreter as it was: environment, blueprints, host
\* functions, limit, counter, and no tick or host call is made; the
\* last-error slot takes the message and the line of that error.
C28_FrontEndFailure ==
    [][(op'.name = "grove_eval" /\ FailsInFront(op'.source)) =>
         /\ interp' = interp
         /\ op'.ret = -1
         /\ last_error' = SomeStr(error_display(FrontError(op'.source)))
         /\ last_error_line' = FrontError(op'.source).line]_vars

\* a lexer failure on line 2 after runs that defined a blueprint, a global
\* and called a host function
C28_witness ==
    /\ op.name = "grove_eval"
    /\ op.source = LexFail(TextUnterminated)
    /\ last_error_line = 2
    /\ ErrKind(last_error) = "Syntax"
    /\ contains_key(interp.blueprints, "b")
    /\ get(interp.env, "a") = Some(VNumber(1))
    /\ HostCalls(interp.trace, "probe") = 2

----------------------------------------------------------------------------
(* The last-error slot under the other entry points of the C ABI *)

SourcesSlot ==
    {LexFail(TextUnterminated), SrcDangling, SrcProgram(ProgNameErr), SrcProgram(ProgLoop),
     SrcProgram(ProgCount)}

LimitsSlot == {2, MaxLimit}

NextSlot ==
    \/ \E src \in SourcesSlot : GroveEval(src)
    \/ \E cb \in {CbNil, CbFail} : GroveRegisterFn("probe", cb)
    \/ \E value \in {1, 2} : GroveSetGlobalNumber("i", value)
    \/ GroveSetGlobalString("s", "abc")
    \/ GroveSetGlobalVec3("v", 0, 1, 2)
    \/ \E l \in LimitsSlot : GroveSetInstructionLimit(l)
    \/ GroveLastError
    \/ GroveLastErrorLine

SpecSlot == Init /\ [][NextSlot]_vars

SlotKeepers ==
    {"grove_register_fn", "grove_set_global_number", "grove_set_global_string",
     "grove_set_global_vec3", "grove_set_instruction_limit", "grove_last_error",
     "grove_last_error_line"}

\* C29: a call of grove_register_fn, grove_set_global_number / _string /
\* _vec3, grove_set_instruction_limit, grove_last_error or
\* grove_last_error_line leaves the stored message and line as they were,
\* and the two readers return what is stored.
C29_SlotKeptByOtherCalls ==
    [][(op' # op /\ op'.name \in SlotKeepers) =>
         /\ last_error' = last_error
         /\ last_error_line' = last_error_line
         /\ op'.name = "grove_last_error" => op'.ret = last_error
         /\ op'.name = "grove_last_error_line" => op'.ret = last_error_line]_vars

\* the line of a lexer error read back after other calls were made
C29_witness ==
    /\ op.name = "grove_last_error_line"
    /\ op.ret = 2
    /\ ErrKind(last_error) = "Syntax"
    /\ get(interp.env, "i") = Some(VNumber(2))
    /\ get(interp.env, "v") = Some(VVec3(0, 1, 2))
    /\ contains_key(interp.host_fns, "probe")
    /\ interp.instruction_limit = 2

----------------------------------------------------------------------------
(* The header of a NumericFor is evaluated once.  The body appends the     *)
(* loop variable to the decimal number acc and then assigns to a variable  *)
(* of the header or to the loop variable.                                  *)

CbOne == Callback(0, GroveValue(2, [number_val |-> 1]))

\* k(<id>): a host function that returns 1
HeaderCall(id, col) == Call(Ident("k", Sp(4, col)), <<NumberLit(id)>>, Sp(4, col + 1))

\* i = 9    n = 0    s = 2    local i = 9    (or nothing)
Meddle(how) ==
    CASE how = "var" -> <<Assign(Ident("i", Sp(6, 5)), NumberLit(9), Sp(6, 5))>>
      [] how = "limit" -> <<Assign(Ident("n", Sp(6, 5)), NumberLit(0), Sp(6, 5))>>
      [] how = "step" -> <<Assign(Ident("s", Sp(6, 5)), NumberLit(2), Sp(6, 5))>>
      [] how = "local" -> <<LocalDecl("i", NumberLit(9), Sp(6, 5))>>
      [] OTHER -> <<>>

\* local acc = 0
\* local n = 3
\* local s = 1
\* for i = 1, n, s do               or   for i = k(1), k(2) + 2, k(3) do
\*     acc = acc * 10 + i
\*     <meddle>
\* end
ProgHeader(header, how) ==
    <<LocalDecl("acc", NumberLit(0), Sp(1, 1)),
      LocalDecl("n", NumberLit(3), Sp(2, 1)),
      LocalDecl("s", NumberLit(1), Sp(3, 1)),
      NumericFor("i",
                 IF header = "vars" THEN NumberLit(1) ELSE HeaderCall(1, 9),
                 IF header = "vars" THEN Ident("n", Sp(4, 12))
                 ELSE BinaryOp(HeaderCall(2, 15), "Add", NumberLit(2), Sp(4, 20)),
                 IF header = "vars" THEN Ident("s", Sp(4, 15)) ELSE HeaderCall(3, 25),
                 <<Assign(Ident("acc", Sp(5, 5)),
                          BinaryOp(BinaryOp(Ident("acc", Sp(5, 11)), "Mul", NumberLit(10),
                                            Sp(5, 15)),
                                   "Add", Ident("i", Sp(5, 22)), Sp(5, 20)),
                          Sp(5, 5))>>
                 \o Meddle(how),
                 Sp(4, 1))>>

Headers == {"vars", "calls"}
Meddlings == {"none", "var", "limit", "step", "local"}

SourcesHeader == {SrcProgram(ProgHeader(h, m)) : h \in Headers, m \in Meddlings}

LimitsHeader == {MaxLimit, NestLimit}

NextHeader ==
    \/ \E src \in SourcesHeader : GroveEvalWithin(src, NestLimit)
    \/ GroveRegisterFn("k", CbOne)
    \/ \E l \in LimitsHeader : GroveSetInstructionLimit(l)

SpecHeader == Init /\ [][NextHeader]_vars

HeaderReady(o) ==
    /\ Executed(o)
    /\ o.pre.instruction_limit = NestLimit
    /\ contains_key(o.pre.host_fns, "k")

\* C30: whatever the body assigns, the loop makes its three passes with
\* i = 1, 2, 3, and start, limit and step are evaluated once each, in that
\* order, before the first pass.
C30_HeaderEvaluatedOnce ==
    \A header \in Headers, how \in Meddlings :
      (HeaderReady(op) /\ op.source.program = ProgHeader(header, how)) =>
        /\ op.ret = 0
        /\ get(interp.env, "acc") = Some(VNumber(123))
        /\ TicksAtLine(interp.trace, 5) = 3
        /\ ProbeArgs(interp.trace) = IF header = "calls" THEN <<1, 2, 3>> ELSE <<>>
        /\ \A j \in DOMAIN interp.trace :
             interp.trace[j].e = "host" => interp.trace[j].c = 4

\* the body assigned to the loop variable, the header made of calls
C30_witness ==
    /\ HeaderReady(op)
    /\ op.source.program = ProgHeader("calls", "var")
    /\ get(interp.env, "acc") = Some(VNumber(123))
    /\ HostCalls(interp.trace, "k") = 3

====
